---------------------------- MODULE Spec2Model ----------------------------
(***************************************************************************)
(* ShabdSetu: the concurrent chunk-processing core.                        *)
(*                                                                         *)
(*   - the chunker (DocumentProcessor.chunk_text and its helpers),         *)
(*   - the shared worker pool, the per-processor rate limiter, the         *)
(*     per-call retry loop (proofread_chunk / translate_chunk) and the     *)
(*     dispatcher (process_chunks_parallel),                               *)
(*   - the job (process_file / process_document_background) and the        *)
(*     progress store (progress_tracker).                                  *)
(*                                                                         *)
(* A text is a sequence of characters; a character is a one-letter string: *)
(*   "a" "b"  letters            "s"  the space ' '      "n"  '\n'         *)
(*   "t"  '\t'                   "r"  '\r'               "d"  the danda    *)
(*   "D"  the double danda       "q"  '?'   "e"  '!'     "p"  '.'          *)
(*   "x"  marks a text that the external transform has rewritten.         *)
(***************************************************************************)
EXTENDS Integers, Sequences, FiniteSets, TLC

(***************************************************************************)
(* Bounds of the model.                                                    *)
(***************************************************************************)
\* longest input text given to chunk_text in SpecChunk
MaxLen == 5
\* largest max_chunk_size given to chunk_text in SpecChunk
MaxSize == 3

\* the characters input texts are made of in SpecChunk
Alphabet == {"a", "s", "n", "d"}

(***************************************************************************)
(* Strings as Python handles them.                                         *)
(***************************************************************************)
\* str.strip() with no argument removes these (among the characters used here)
Whitespace == {"s", "n", "t", "r"}

Max2(a, b) == IF a >= b THEN a ELSE b

\* text[lo:hi] with 0-based Python indices, 0 <= lo, hi
Slice(text, lo, hi) == SubSeq(text, lo + 1, IF hi > Len(text) THEN Len(text) ELSE hi)

\* text.find(sep): the 0-based index of the first occurrence, -1 when none
PyFind(text, sep) ==
  LET S == {i \in 0..(Len(text) - Len(sep)) : Slice(text, i, i + Len(sep)) = sep}
  IN  IF S = {} THEN -1 ELSE CHOOSE i \in S : \A k \in S : i <= k

\* sep in text
Contains(text, sep) == PyFind(text, sep) >= 0

\* text.rfind(ch, start, end) for a single character: the highest index in
\* [start, end), -1 when none
PyRFind(text, ch, start, end) ==
  LET hi == IF end > Len(text) THEN Len(text) ELSE end
      S  == {i \in start..(hi - 1) : text[i + 1] = ch}
  IN  IF S = {} THEN -1 ELSE CHOOSE i \in S : \A k \in S : i >= k

\* text.split(sep) for a non-empty sep: left to right, non-overlapping
RECURSIVE PySplit(_, _)
PySplit(text, sep) ==
  LET p == PyFind(text, sep)
  IN  IF p < 0 THEN <<text>>
      ELSE <<Slice(text, 0, p)>> \o PySplit(Slice(text, p + Len(sep), Len(text)), sep)

RECURSIVE LStrip(_)
LStrip(text) ==
  IF text # <<>> /\ Head(text) \in Whitespace THEN LStrip(Tail(text)) ELSE text

RECURSIVE RStrip(_)
RStrip(text) ==
  IF text # <<>> /\ text[Len(text)] \in Whitespace
  THEN RStrip(SubSeq(text, 1, Len(text) - 1)) ELSE text

\* text.strip()
Strip(text) == RStrip(LStrip(text))

\* sep.join(parts)
RECURSIVE PyJoin(_, _)
PyJoin(sep, parts) ==
  IF parts = <<>> THEN <<>>
  ELSE IF Len(parts) = 1 THEN parts[1]
  ELSE parts[1] \o sep \o PyJoin(sep, Tail(parts))

\* the concatenation of a sequence of sequences
RECURSIVE Flatten(_)
Flatten(parts) == IF parts = <<>> THEN <<>> ELSE Head(parts) \o Flatten(Tail(parts))

(***************************************************************************)
(* The chunker: DocumentProcessor.chunk_text, _split_large_text and        *)
(* _force_split.                                                           *)
(***************************************************************************)
\* _force_split looks back this many characters for a break point
ForceSplitLookback == 500

\* the delimiters of _split_large_text, in order of preference
delimiters ==
  << <<"d">>, <<"D">>, <<"d", "s">>, <<"q", "s">>, <<"e", "s">>, <<"p", "s">>,
     <<"n">>, <<"t">>, <<"s">> >>

\* force_split_point with the hard split one character early
force_split_point_early(remaining, max_chunk_size) ==
  LET search_start == Max2(0, max_chunk_size - ForceSplitLookback)
      last_space   == PyRFind(remaining, "s", search_start, max_chunk_size)
      last_newline == PyRFind(remaining, "n", search_start, max_chunk_size)
  IN  IF last_newline > search_start THEN last_newline + 1
      ELSE IF last_space > search_start THEN last_space + 1
      ELSE max_chunk_size - 1

\* force_split_point with the hard split one character late
force_split_point_late(remaining, max_chunk_size) ==
  LET search_start == Max2(0, max_chunk_size - ForceSplitLookback)
      last_space   == PyRFind(remaining, "s", search_start, max_chunk_size)
      last_newline == PyRFind(remaining, "n", search_start, max_chunk_size)
  IN  IF last_newline > search_start THEN last_newline + 1
      ELSE IF last_space > search_start THEN last_space + 1
      ELSE max_chunk_size + 1

\* the split point of one iteration of the _force_split loop
force_split_point(remaining, max_chunk_size) ==
  LET search_start == Max2(0, max_chunk_size - ForceSplitLookback)
      last_space   == PyRFind(remaining, "s", search_start, max_chunk_size)
      last_newline == PyRFind(remaining, "n", search_start, max_chunk_size)
  IN  IF last_newline > search_start THEN last_newline + 1
      ELSE IF last_space > search_start THEN last_space + 1
      ELSE max_chunk_size

RECURSIVE force_split(_, _)
force_split(text, max_chunk_size) ==
  IF Len(text) > max_chunk_size
  THEN LET split_point == force_split_point(text, max_chunk_size)
       IN  <<Strip(Slice(text, 0, split_point))>>
             \o force_split(Strip(Slice(text, split_point, Len(text))), max_chunk_size)
  ELSE IF text # <<>> THEN <<text>> ELSE <<>>

\* the first delimiter of the list that occurs in the text, <<>> when none does
best_delimiter(text) ==
  LET S == {k \in 1..Len(delimiters) : Contains(text, delimiters[k])}
  IN  IF S = {} THEN <<>> ELSE delimiters[CHOOSE k \in S : \A m \in S : k <= m]

\* a closing of the running chunk that appends it with its trailing separator
flush_unstripped(chunks, current_chunk) ==
  IF current_chunk # <<>> THEN Append(chunks, current_chunk) ELSE chunks

\* a closing of the running chunk that forgets to append it
flush_dropping(chunks, current_chunk) == chunks

\* the running chunk is closed: "if current_chunk: chunks.append(current_chunk.strip())"
flush(chunks, current_chunk) ==
  IF current_chunk # <<>> THEN Append(chunks, Strip(current_chunk)) ELSE chunks

\* one iteration of the segment loop of _split_large_text
split_segment(st, segment_with_delim, max_chunk_size) ==
  IF Len(segment_with_delim) > max_chunk_size
  THEN [chunks |-> flush(st.chunks, st.current_chunk)
                     \o force_split(segment_with_delim, max_chunk_size),
        current_chunk |-> <<>>]
  ELSE IF Len(st.current_chunk) + Len(segment_with_delim) > max_chunk_size
  THEN [chunks |-> flush(st.chunks, st.current_chunk),
        current_chunk |-> segment_with_delim]
  ELSE [chunks |-> st.chunks,
        current_chunk |-> st.current_chunk \o segment_with_delim]

RECURSIVE split_segments(_, _, _, _, _)
split_segments(st, segments, i, delim, max_chunk_size) ==
  IF i > Len(segments) THEN st
  ELSE split_segments(
         split_segment(st,
                       segments[i] \o (IF i < Len(segments) THEN delim ELSE <<>>),
                       max_chunk_size),
         segments, i + 1, delim, max_chunk_size)

split_large_text(text, max_chunk_size) ==
  LET delim == best_delimiter(text)
  IN  IF delim # <<>>
      THEN LET st == split_segments([chunks |-> <<>>, current_chunk |-> <<>>],
                                    PySplit(text, delim), 1, delim, max_chunk_size)
           IN  IF Strip(st.current_chunk) # <<>>
               THEN Append(st.chunks, Strip(st.current_chunk))
               ELSE st.chunks
      ELSE force_split(text, max_chunk_size)

\* one iteration of the paragraph loop of chunk_text
chunk_paragraph(st, paragraph, max_chunk_size) ==
  IF Len(paragraph) > max_chunk_size
  THEN [chunks |-> flush(st.chunks, st.current_chunk)
                     \o split_large_text(paragraph, max_chunk_size),
        current_chunk |-> <<>>]
  ELSE IF Len(st.current_chunk) + Len(paragraph) + 2 > max_chunk_size
  THEN [chunks |-> flush(st.chunks, st.current_chunk),
        current_chunk |-> paragraph \o <<"n", "n">>]
  ELSE [chunks |-> st.chunks,
        current_chunk |-> st.current_chunk \o paragraph \o <<"n", "n">>]

RECURSIVE chunk_paragraphs(_, _, _)
chunk_paragraphs(st, paragraphs, max_chunk_size) ==
  IF paragraphs = <<>> THEN st
  ELSE chunk_paragraphs(chunk_paragraph(st, Head(paragraphs), max_chunk_size),
                        Tail(paragraphs), max_chunk_size)

\* the final safety check of chunk_text
RECURSIVE final_chunks(_, _)
final_chunks(chunks, max_chunk_size) ==
  IF chunks = <<>> THEN <<>>
  ELSE (IF Len(Head(chunks)) > max_chunk_size
        THEN force_split(Head(chunks), max_chunk_size)
        ELSE <<Head(chunks)>>)
       \o final_chunks(Tail(chunks), max_chunk_size)

chunk_text(text, max_chunk_size) ==
  LET st == chunk_paragraphs([chunks |-> <<>>, current_chunk |-> <<>>],
                             PySplit(text, <<"n", "n">>), max_chunk_size)
      chunks == IF Strip(st.current_chunk) # <<>>
                THEN Append(st.chunks, Strip(st.current_chunk))
                ELSE st.chunks
  IN  final_chunks(chunks, max_chunk_size)
(***************************************************************************)
(* The chunker on its own: chunk_text applied to every text over Alphabet  *)
(* of length <= MaxLen, with every max_chunk_size in 1..MaxSize.           *)
(***************************************************************************)
VARIABLES
  in_text,          \* the text argument of chunk_text
  in_size,          \* the max_chunk_size argument
  out_chunks,       \* the list chunk_text returned; in SpecForce the list
                    \* "chunks" of _force_split
  cpc,              \* "input": not called yet, "done": chunk_text has returned;
                    \* "split": in the loop of _force_split
  remaining         \* the local "remaining" of _force_split

chunk_vars == <<in_text, in_size, out_chunks, cpc, remaining>>

RECURSIVE TextsOfLen(_)
TextsOfLen(n) ==
  IF n = 0 THEN {<<>>}
  ELSE {Append(t, c) : t \in TextsOfLen(n - 1), c \in Alphabet}

Texts == UNION {TextsOfLen(n) : n \in 0..MaxLen}

ChunkInit ==
  /\ in_text \in Texts
  /\ in_size \in 1..MaxSize
  /\ out_chunks = <<>>
  /\ cpc = "input"
  /\ remaining = <<>>

(***************************************************************************)
(* The jobs, the shared pool, the rate limiter, the retry loop and the     *)
(* dispatcher.                                                             *)
(***************************************************************************)
\* the worker threads of GLOBAL_GEMINI_EXECUTOR: 40 in the program, scaled down
max_workers == 2
\* max_chunk_size of the jobs' chunk_text calls: 15000 in the program, scaled down
JobChunkSize == 2
\* the pages of the largest PDF
MaxPages == 5
\* the page ceiling of process_file: 200 in the program, scaled down to the
\* largest PDF the jobs read
MAX_PDF_PAGES == MaxPages

\* self.request_timeout of the processors, in seconds
request_timeout == 300
\* the socket default of a process that has set none (None in Python)
NoTimeout == 0

\* max_retries of proofread_chunk and translate_chunk
max_retries == 3
\* self.min_request_interval = 0.05 s, in hundredths of a second
min_request_interval == 5
\* BATCH_SIZE of perform_ocr: 5 in the program, scaled down
BATCH_SIZE == 2

\* the jobs (requests to /process) of one run of the model
Jobs == {1, 2}

\* Python's None, as a text no chunk and no response equals
None == <<"None">>
\* a field a progress entry does not have
Absent == <<"absent">>
\* no entry for the job in progress_tracker
NoEntry ==
  [current |-> 0, total |-> 0, status |-> "no entry", percentage |-> 0,
   output_file |-> Absent, user_email |-> Absent, page_usage |-> Absent,
   error |-> Absent, message |-> Absent]
\* a pool task that has not completed has no outcome
NoOut == [kind |-> "none"]

\* the modes process_document_background has a branch for
OcrModes       == {1, 2, 4}
DocxModes      == {3, 5}
ProofreadModes == {2, 3}
TranslateModes == {4, 5}
\* mode = int(request.form.get('mode')) is not validated: 6 stands for every
\* value without a branch
Modes == 1..6

\* what one call of model.generate_content can do
Kinds == {"text", "blank", "timeout", "rate", "other"}
ErrorKinds == {"timeout", "rate", "other"}

\* the documents read_docx can return
DocTexts == { <<"a">>, <<"a", "n", "n", "b">>, <<"s", "n", "n", "a", "a">> }

\* the text Vision returns for page p (0-based)
PageText(p) ==
  IF p = 0 THEN <<"a">>
  ELSE IF p = 1 THEN <<"b">>
  ELSE <<"a", "b">> \o [k \in 1..(p - 2) |-> "a"]

\* what the model answers for a chunk: the chunk rewritten
Transformed(chunk) == <<"x">> \o chunk

VARIABLES
  env,                \* the environment of the run: which jobs are requested, with
                      \* which modes and languages, and what the external calls do
  now,                \* time.time(), in hundredths of a second
  progress_tracker,   \* config.progress_tracker: job -> entry
  queue,              \* the work queue of GLOBAL_GEMINI_EXECUTOR: <<job, index>>
  pc,                 \* job -> the position of its request / background thread
  mode,               \* job -> mode
  language,           \* job -> "set" or "None" (request.form.get('language'))
  ocr,                \* job -> the state of perform_ocr
  text,               \* job -> the text read from the source
  chunks,             \* job -> the chunks given to process_chunks_parallel
  results,            \* job -> the result array of process_chunks_parallel
  task,               \* job -> index -> the pool task (the future) of the chunk
  disp,               \* job -> the loop state of process_chunks_parallel
  rate_limit_lock,    \* job -> the index of the task holding self.rate_limit_lock, 0: free
  last_request_time,  \* job -> self.last_request_time
  output,             \* job -> what the job produced: output_filename, e-mail, writes
  upload,             \* job -> the uploaded file, its page count and the trial debit
  default_timeout,    \* socket.getdefaulttimeout(): one value for the whole process
  worker,             \* pool thread -> its position in the retry loop and its old_timeout
  pages_used,         \* the pages_used of the trial_usage document of the user and mode
  trial,              \* request -> its position in the trial check of process_file,
                      \* the page usage of its document and the remaining pages it read
  otp_storage,        \* auth.otp_storage, for one e-mail: the stored passcode or NoOtp
  clock,              \* datetime.now(), in minutes
  otp_result,         \* what the latest call of verify_otp returned
  otp_log,            \* ghost: the passcodes stored so far (a count) and the ids of
                      \* those that verified, in order
  cleanup             \* the position of the thread of cleanup_expired_otps

job_vars == <<env, upload, now, progress_tracker, queue, pc, mode, language, ocr, text, chunks,
              results, task, disp, rate_limit_lock, last_request_time, output>>

\* the socket default and the threads of the pool that run attempts
sock_vars == <<default_timeout, worker>>

\* the trial usage of one user and mode, and the requests that check it
trial_vars == <<pages_used, trial>>

\* the passcodes of one e-mail
otp_vars == <<otp_storage, clock, otp_result, otp_log, cleanup>>

vars == <<chunk_vars, job_vars, sock_vars, trial_vars, otp_vars>>

(***************************************************************************)
(* progress_tracker                                                        *)
(***************************************************************************)
\* int((current / total) * 100) if total > 0 else 0
percentage(current, total) == IF total > 0 THEN (current * 100) \div total ELSE 0

\* a tracker that counts one step per page
update_progress_per_page(current, total, status) ==
  [current |-> current, total |-> total \div 2, status |-> status,
   percentage |-> percentage(current, total \div 2),
   output_file |-> Absent, user_email |-> Absent, page_usage |-> Absent,
   error |-> Absent, message |-> Absent]

\* a tracker that merges the new fields into the entry of the job: the fields
\* of the starting entry stay
update_progress_merging(current, total, status) ==
  [current |-> current, total |-> total, status |-> status,
   percentage |-> percentage(current, total),
   output_file |-> Absent, user_email |-> <<"user">>, page_usage |-> <<"usage">>,
   error |-> Absent, message |-> Absent]

\* the entry DocumentProcessor.update_progress and OCRProcessor.update_progress write
update_progress(current, total, status) ==
  [current |-> current, total |-> total, status |-> status,
   percentage |-> percentage(current, total),
   output_file |-> Absent, user_email |-> Absent, page_usage |-> Absent,
   error |-> Absent, message |-> Absent]

\* the entry process_file writes when the job starts
starting_entry ==
  [current |-> 0, total |-> 100, status |-> "Starting...", percentage |-> 0,
   output_file |-> Absent, user_email |-> <<"user">>, page_usage |-> <<"usage">>,
   error |-> Absent, message |-> Absent]

\* the entry process_document_background writes after the mode branches
complete_entry(output_filename) ==
  [current |-> 100, total |-> 100, status |-> "Complete", percentage |-> 100,
   output_file |-> output_filename, user_email |-> <<"user">>, page_usage |-> Absent,
   error |-> Absent, message |-> Absent]

\* the entry of the except clause of process_document_background; the status
\* is 'Error: ' followed by the message of the exception
error_entry(message) ==
  [current |-> 0, total |-> 100, status |-> "Error", percentage |-> 0,
   output_file |-> Absent, user_email |-> Absent, page_usage |-> Absent,
   error |-> <<"True">>, message |-> <<message>>]

(***************************************************************************)
(* Initial state                                                           *)
(***************************************************************************)
NewTask ==
  [st |-> "new", by |-> "pool", attempt |-> 0, out |-> NoOut,
   calls |-> 0, pure |-> "none", wait |-> 0, runs |-> 0]

\* page, future and results map the 0-based page_num p to entry p + 1: the
\* state of the page's task, what its future returned, and results[page_num]
\* order, batches and calls are ghosts: the pages in the order as_completed
\* yielded them, the sizes of the batches submitted so far, and for every page
\* the calls of extract_text_from_image made for it
NoOcr ==
  [total_pages |-> 0, start_idx |-> 0, images |-> {}, page |-> <<>>,
   future |-> <<>>, results |-> <<>>, completed_steps |-> 0, phase |-> "off",
   order |-> <<>>, batches |-> <<>>, calls |-> <<>>]

\* order and writes are ghosts: the indices in the order as_completed yielded
\* them, and for every slot the chunks on whose behalf it was written
NoDisp ==
  [submitted |-> 0, completed |-> 0, collected |-> {}, cur |-> 0, order |-> <<>>,
   writes |-> <<>>]

\* failures is a ghost: the kinds of unit ("page", "chunk") whose external call
\* failed and that took its fallback
NoOutput ==
  [output_filename |-> None, email |-> "none", written |-> FALSE, failures |-> {}]

\* pages is the page count of an uploaded PDF, 0 for a Word document
NoUpload == [file |-> "none", pages |-> 0, debited |-> FALSE]

\* no passcode is stored for the e-mail; id is a ghost that numbers the
\* passcodes stored
NoOtp == [otp |-> "none", timestamp |-> 0, id |-> 0]
\* verify_otp was not called yet; n is a ghost that numbers the calls
NoResult == [ok |-> FALSE, message |-> "none", n |-> 0]

\* a request to /process that has not reached the trial check
NoTrial == [pc |-> "idle", page_usage |-> 0, remaining_pages |-> 0]

\* a pool thread about to enter the retry loop of a chunk
NewWorker == [pc |-> "attempt", attempt |-> 0, old_timeout |-> NoTimeout]

JobInit(e) ==
  /\ env = e
  /\ default_timeout = NoTimeout
  /\ worker = [w \in 1..max_workers |-> NewWorker]
  /\ pages_used = 0
  /\ trial = [j \in Jobs |-> NoTrial]
  /\ otp_storage = NoOtp
  /\ clock = 0
  /\ otp_result = NoResult
  /\ otp_log = [stored |-> 0, verified |-> <<>>]
  /\ cleanup = "sleep"
  /\ upload = [j \in Jobs |-> NoUpload]
  /\ now = min_request_interval
  /\ progress_tracker = [j \in Jobs |-> NoEntry]
  /\ queue = <<>>
  /\ pc = [j \in Jobs |-> "idle"]
  /\ mode = [j \in Jobs |-> 0]
  /\ language = [j \in Jobs |-> "None"]
  /\ ocr = [j \in Jobs |-> NoOcr]
  /\ text = [j \in Jobs |-> <<>>]
  /\ chunks = [j \in Jobs |-> <<>>]
  /\ results = [j \in Jobs |-> <<>>]
  /\ task = [j \in Jobs |-> <<>>]
  /\ disp = [j \in Jobs |-> NoDisp]
  /\ rate_limit_lock = [j \in Jobs |-> 0]
  /\ last_request_time = [j \in Jobs |-> 0]
  /\ output = [j \in Jobs |-> NoOutput]

(***************************************************************************)
(* process_file: the request that starts a job                             *)
(***************************************************************************)
\* a page-count check that lets every PDF through
exceeds_limit_never(page_count) == FALSE

\* get_pdf_page_count: "if page_count > MAX_PDF_PAGES: raise"
exceeds_limit(page_count) == page_count > MAX_PDF_PAGES

\* routes/document_routes.py, for a request without payment_id that is within
\* the trial limits: the file is saved and its pages are counted; a PDF over the
\* ceiling is removed and the request answered with 400; otherwise the trial
\* usage is incremented, the progress entry is created and the background
\* thread is started
StartJob(j, m, lang) ==
  /\ j \in env.clients
  /\ pc[j] = "idle"
  /\ m \in env.modes
  /\ lang \in env.languages
  /\ \E page_count \in (IF m \in OcrModes THEN env.pages ELSE {0}) :
       IF exceeds_limit(page_count)
       THEN /\ upload' = [upload EXCEPT ![j] =
                            [file |-> "removed", pages |-> page_count,
                             debited |-> FALSE]]
            /\ pc' = [pc EXCEPT ![j] = "rejected"]
            /\ UNCHANGED <<mode, language, progress_tracker>>
       ELSE /\ upload' = [upload EXCEPT ![j] =
                            [file |-> "saved", pages |-> page_count,
                             debited |-> TRUE]]
            /\ mode' = [mode EXCEPT ![j] = m]
            /\ language' = [language EXCEPT ![j] = lang]
            /\ progress_tracker' = [progress_tracker EXCEPT ![j] = starting_entry]
            /\ pc' = [pc EXCEPT ![j] = "started"]
  /\ UNCHANGED <<chunk_vars, sock_vars, trial_vars, otp_vars, env, now, queue, ocr, text, chunks, results, task, disp,
                 rate_limit_lock, last_request_time, output>>

\* the except clause of process_document_background
Fails(j, message) ==
  /\ progress_tracker' = [progress_tracker EXCEPT ![j] = error_entry(message)]
  /\ pc' = [pc EXCEPT ![j] = "failed"]

(***************************************************************************)
(* OCRProcessor.perform_ocr and process_page                               *)
(***************************************************************************)
Min2(a, b) == IF a <= b THEN a ELSE b

\* every remaining page taken as one batch
BatchPages_unbounded(o) == o.start_idx .. (o.total_pages - 1)

\* the pages of the current batch: range(start_idx, end_idx)
BatchPages(o) == o.start_idx .. (Min2(o.start_idx + BATCH_SIZE, o.total_pages) - 1)

\* fitz.open(pdf_path) and the set-up of the batch loop
OcrOpen(j, n, ok) ==
  /\ pc[j] = "started"
  /\ mode[j] \in OcrModes
  /\ n = upload[j].pages
  /\ IF ok
     THEN /\ ocr' = [ocr EXCEPT ![j] =
                       [total_pages |-> n, start_idx |-> 0, images |-> {},
                        page |-> [p \in 1..n |-> "none"],
                        future |-> [p \in 1..n |-> None],
                        results |-> [p \in 1..n |-> None],
                        completed_steps |-> 0, phase |-> "convert",
                        order |-> <<>>, batches |-> <<>>,
                        calls |-> [p \in 1..n |-> 0]]]
          /\ pc' = [pc EXCEPT ![j] = "ocr"]
          /\ UNCHANGED progress_tracker
     ELSE /\ Fails(j, "unreadable source")
          /\ UNCHANGED ocr
  /\ UNCHANGED <<chunk_vars, sock_vars, trial_vars, otp_vars, env, upload, now, queue, mode, language, text, chunks, results, task, disp,
                 rate_limit_lock, last_request_time, output>>

\* one iteration of the conversion loop; after the last page of the batch the
\* pages are submitted to the batch's own ThreadPoolExecutor(max_workers=BATCH_SIZE)
OcrConvert(j, ok) ==
  /\ pc[j] = "ocr"
  /\ ocr[j].phase = "convert"
  /\ LET o == ocr[j]
         page_num == o.start_idx + Cardinality(o.images)
         steps == o.completed_steps + 1
         images == o.images \cup {page_num}
     IN  IF ok
         THEN /\ ocr' = [ocr EXCEPT ![j] =
                  IF images = BatchPages(o)
                  THEN [o EXCEPT !.completed_steps = steps, !.images = images,
                                 !.phase = "extract",
                                 !.batches = Append(@, Cardinality(images)),
                                 !.page = [p \in 1..o.total_pages |->
                                             IF (p - 1) \in images THEN "running"
                                             ELSE o.page[p]]]
                  ELSE [o EXCEPT !.completed_steps = steps, !.images = images]]
              /\ progress_tracker' = [progress_tracker EXCEPT ![j] =
                    update_progress(steps, o.total_pages * 2, "Converting page")]
              /\ UNCHANGED pc
         ELSE \* page.get_pixmap raises after the progress update
              /\ Fails(j, "unreadable source")
              /\ UNCHANGED ocr
  /\ UNCHANGED <<chunk_vars, sock_vars, trial_vars, otp_vars, env, upload, now, queue, mode, language, text, chunks, results, task, disp,
                 rate_limit_lock, last_request_time, output>>

\* process_page: what the page's future returns
process_page(p, outcome) == IF outcome = "text" THEN PageText(p) ELSE <<>>

\* a page task of the batch finishes: Vision returned a text, returned nothing,
\* or the call failed
OcrPageDone(j, p, outcome) ==
  /\ pc[j] = "ocr"
  /\ ocr[j].phase = "extract"
  /\ p \in BatchPages(ocr[j])
  /\ ocr[j].page[p + 1] = "running"
  /\ ocr' = [ocr EXCEPT ![j].page[p + 1] = "done",
                        ![j].calls[p + 1] = @ + 1,
                        ![j].future[p + 1] = process_page(p, outcome)]
  /\ output' = [output EXCEPT ![j].failures =
                   IF outcome = "fail" THEN @ \cup {"page"} ELSE @]
  /\ UNCHANGED <<chunk_vars, sock_vars, trial_vars, otp_vars, env, upload, now, progress_tracker, queue, pc, mode, language,
                 text, chunks, results, task, disp, rate_limit_lock,
                 last_request_time>>

\* a key that numbers the pages as their futures complete
page_key_by_completion(o, page_num) == Len(o.order) + 1

\* results[page_num] = text: the key of the page in results (pages are numbered
\* from 0, the model's functions from 1)
page_key(o, page_num) == page_num + 1

\* one iteration of the as_completed loop of the batch
OcrCollect(j, p) ==
  /\ pc[j] = "ocr"
  /\ ocr[j].phase = "extract"
  /\ p \in BatchPages(ocr[j])
  /\ ocr[j].page[p + 1] = "done"
  /\ LET o == ocr[j]
         steps == o.completed_steps + 1
     IN  /\ ocr' = [ocr EXCEPT ![j].page[p + 1] = "collected",
                               ![j].results[page_key(o, p)] = o.future[p + 1],
                               ![j].completed_steps = steps,
                               ![j].order = Append(@, p)]
         /\ progress_tracker' = [progress_tracker EXCEPT ![j] =
               update_progress(steps, o.total_pages * 2, "OCR Processing page")]
  /\ UNCHANGED <<chunk_vars, sock_vars, trial_vars, otp_vars, env, upload, now, queue, pc, mode, language, text, chunks, results, task,
                 disp, rate_limit_lock, last_request_time, output>>

\* [t for t in final_text if t]
RECURSIVE NonEmpty(_)
NonEmpty(parts) ==
  IF parts = <<>> THEN <<>>
  ELSE (IF Head(parts) # <<>> THEN <<Head(parts)>> ELSE <<>>) \o NonEmpty(Tail(parts))

\* text.replace('\n', '\r')
RECURSIVE ReplaceNewlines(_)
ReplaceNewlines(t) ==
  IF t = <<>> THEN <<>>
  ELSE <<IF Head(t) = "n" THEN "r" ELSE Head(t)>> \o ReplaceNewlines(Tail(t))

\* the end of a batch: the images are released; after the last batch the page
\* texts are joined and perform_ocr returns
OcrBatchEnd(j) ==
  /\ pc[j] = "ocr"
  /\ ocr[j].phase = "extract"
  /\ \A p \in BatchPages(ocr[j]) : ocr[j].page[p + 1] = "collected"
  /\ LET o == ocr[j]
         next == o.start_idx + BATCH_SIZE
         joined == PyJoin(<<"n", "n">>, NonEmpty(o.results))
     IN  IF next < o.total_pages
         THEN /\ ocr' = [ocr EXCEPT ![j].images = {}, ![j].start_idx = next,
                                    ![j].phase = "convert"]
              /\ UNCHANGED <<pc, text>>
         ELSE /\ ocr' = [ocr EXCEPT ![j] =
                            [NoOcr EXCEPT !.phase = "returned",
                                          !.total_pages = o.total_pages,
                                          !.order = o.order,
                                          !.batches = o.batches]]
              /\ text' = [text EXCEPT ![j] =
                            IF mode[j] = 2 THEN ReplaceNewlines(joined) ELSE joined]
              /\ pc' = [pc EXCEPT ![j] = IF mode[j] = 1 THEN "write" ELSE "chunk"]
  /\ UNCHANGED <<chunk_vars, sock_vars, trial_vars, otp_vars, env, upload, now, progress_tracker, queue, mode, language, chunks, results,
                 task, disp, rate_limit_lock, last_request_time, output>>

\* DocumentHandler.read_docx(input_path)
ReadDocx(j, t, ok) ==
  /\ pc[j] = "started"
  /\ mode[j] \in DocxModes
  /\ t \in env.docs
  /\ IF ok
     THEN /\ text' = [text EXCEPT ![j] = t]
          /\ pc' = [pc EXCEPT ![j] = "chunk"]
          /\ UNCHANGED progress_tracker
     ELSE /\ Fails(j, "unreadable source")
          /\ UNCHANGED text
  /\ UNCHANGED <<chunk_vars, sock_vars, trial_vars, otp_vars, env, upload, now, queue, mode, language, ocr, chunks, results, task, disp,
                 rate_limit_lock, last_request_time, output>>

(***************************************************************************)
(* proofread_full_text / translate_full_text and process_chunks_parallel   *)
(***************************************************************************)
\* chunks = self.chunk_text(full_text); results = [None] * len(chunks)
StartDispatch(j) ==
  /\ pc[j] = "chunk"
  /\ LET cs == chunk_text(text[j], JobChunkSize)
     IN  /\ chunks' = [chunks EXCEPT ![j] = cs]
         /\ results' = [results EXCEPT ![j] = [i \in 1..Len(cs) |-> None]]
         /\ task' = [task EXCEPT ![j] = [i \in 1..Len(cs) |-> NewTask]]
         /\ disp' = [disp EXCEPT ![j] =
                       [NoDisp EXCEPT !.writes = [i \in 1..Len(cs) |-> <<>>]]]
  /\ pc' = [pc EXCEPT ![j] = "dispatch"]
  /\ UNCHANGED <<chunk_vars, sock_vars, trial_vars, otp_vars, env, upload, now, progress_tracker, queue, mode, language, ocr, text,
                 rate_limit_lock, last_request_time, output>>

\* executor.submit(self.process_with_rate_limit, process_func, chunk), for the
\* next chunk of the enumeration
Submit(j) ==
  /\ pc[j] = "dispatch"
  /\ disp[j].submitted < Len(chunks[j])
  /\ LET i == disp[j].submitted + 1
     IN  /\ task' = [task EXCEPT ![j][i].st = "queued"]
         /\ queue' = Append(queue, <<j, i>>)
         /\ disp' = [disp EXCEPT ![j].submitted = i]
  /\ UNCHANGED <<chunk_vars, sock_vars, trial_vars, otp_vars, env, upload, now, progress_tracker, pc, mode, language, ocr, text, chunks,
                 results, rate_limit_lock, last_request_time, output>>

\* the chunk indices in use (1-based: index i of the program is i + 1 here)
Indices == UNION {DOMAIN task[j] : j \in Jobs}

\* the tasks that occupy a worker thread of the shared pool
PoolBusy ==
  {jk \in Jobs \X Indices :
     /\ jk[2] \in DOMAIN task[jk[1]]
     /\ task[jk[1]][jk[2]].by = "pool"
     /\ task[jk[1]][jk[2]].st \in {"waitlock", "locked", "call", "sleep"}}

\* worker_available with one thread more than max_workers
worker_available_one_more == Cardinality(PoolBusy) <= max_workers

\* a worker thread is free to take a task
worker_available == Cardinality(PoolBusy) < max_workers

\* the external generative calls in flight, in the pool or in a job's thread
InFlight ==
  {jk \in Jobs \X Indices :
     /\ jk[2] \in DOMAIN task[jk[1]]
     /\ task[jk[1]][jk[2]].st = "call"}

\* a free worker thread of the pool takes the oldest task of the queue
StartTask(j, i) ==
  /\ i \in DOMAIN task[j]
  /\ queue # <<>>
  /\ Head(queue) = <<j, i>>
  /\ worker_available
  /\ queue' = Tail(queue)
  /\ task' = [task EXCEPT ![j][i].st = "waitlock"]
  /\ UNCHANGED <<chunk_vars, sock_vars, trial_vars, otp_vars, env, upload, now, progress_tracker, pc, mode, language, ocr, text, chunks,
                 results, disp, rate_limit_lock, last_request_time, output>>

\* AcquireLock without the lock: the time is read and the wait computed by
\* every thread that arrives, whether or not another one is in the section
AcquireLock_unlocked(j, i) ==
  /\ i \in DOMAIN task[j]
  /\ task[j][i].st = "waitlock"
  /\ rate_limit_lock' = [rate_limit_lock EXCEPT ![j] = i]
  /\ LET time_since_last == now - last_request_time[j]
     IN  task' = [task EXCEPT ![j][i].st = "locked",
                              ![j][i].wait =
                                 IF time_since_last < min_request_interval
                                 THEN now + (min_request_interval - time_since_last)
                                 ELSE now]
  /\ UNCHANGED <<chunk_vars, sock_vars, trial_vars, otp_vars, env, upload, now, progress_tracker, queue, pc, mode, language, ocr, text,
                 chunks, results, disp, last_request_time, output>>

\* process_with_rate_limit: "with self.rate_limit_lock:" is entered, the time
\* is read and the thread sleeps, holding the lock, until now + the wait
AcquireLock(j, i) ==
  /\ i \in DOMAIN task[j]
  /\ task[j][i].st = "waitlock"
  /\ rate_limit_lock[j] = 0
  /\ rate_limit_lock' = [rate_limit_lock EXCEPT ![j] = i]
  /\ LET time_since_last == now - last_request_time[j]
     IN  task' = [task EXCEPT ![j][i].st = "locked",
                              ![j][i].wait =
                                 IF time_since_last < min_request_interval
                                 THEN now + (min_request_interval - time_since_last)
                                 ELSE now]
  /\ UNCHANGED <<chunk_vars, sock_vars, trial_vars, otp_vars, env, upload, now, progress_tracker, queue, pc, mode, language, ocr, text,
                 chunks, results, disp, last_request_time, output>>

\* the external call made by attempt number `attempt` starts
call_started(t, attempt) ==
  [t EXCEPT !.st = "call", !.attempt = attempt, !.calls = t.calls + 1, !.wait = 0]

\* the task (the future) completes
task_done(t, out) == [t EXCEPT !.st = "done", !.out = out, !.wait = 0]

\* the function returns a value; fallback: it is the "return text_chunk" of the
\* retry loop
returned(val, fallback) == [kind |-> "ret", val |-> val, fallback |-> fallback]
\* the function raises an exception whose message is of class msg
raised(msg) == [kind |-> "exc", msg |-> msg]

\* process_func(*args) is entered; runs is a ghost: the calls of process_func
\* made for the chunk
func_entered(t) == [t EXCEPT !.runs = @ + 1]

\* ReleaseLock with the lock still held while process_func runs, and after it
ReleaseLock_holding(j, i) ==
  /\ i \in DOMAIN task[j]
  /\ task[j][i].st = "locked"
  /\ LET t == Max2(now, task[j][i].wait)
     IN  /\ now' = t
         /\ last_request_time' = [last_request_time EXCEPT ![j] = t]
  /\ task' = [task EXCEPT ![j][i] =
                IF mode[j] \in ProofreadModes /\ language[j] = "None"
                THEN task_done(func_entered(@), raised("other"))
                ELSE call_started(func_entered(@), 0)]
  /\ UNCHANGED <<chunk_vars, sock_vars, trial_vars, otp_vars, env, upload, progress_tracker, queue, pc, mode, language, ocr, text, chunks,
                 results, disp, output, rate_limit_lock>>

\* process_with_rate_limit: the sleep is over, self.last_request_time is set,
\* the lock is released and process_func starts: proofread_chunk raises at
\* language.lower() when no language was sent, otherwise the first attempt
\* calls the model
ReleaseLock(j, i) ==
  /\ i \in DOMAIN task[j]
  /\ task[j][i].st = "locked"
  /\ LET t == Max2(now, task[j][i].wait)
     IN  /\ now' = t
         /\ last_request_time' = [last_request_time EXCEPT ![j] = t]
  /\ rate_limit_lock' = [rate_limit_lock EXCEPT ![j] = 0]
  /\ task' = [task EXCEPT ![j][i] =
                IF mode[j] \in ProofreadModes /\ language[j] = "None"
                THEN task_done(func_entered(@), raised("other"))
                ELSE call_started(func_entered(@), 0)]
  /\ UNCHANGED <<chunk_vars, sock_vars, trial_vars, otp_vars, env, upload, progress_tracker, queue, pc, mode, language, ocr, text, chunks,
                 results, disp, output>>

\* the message matches '504', 'timeout' or 'timed out'
is_timeout(msg) == msg = "timeout"

\* a wait that does not grow with the attempt
backoff_constant(msg, attempt) == IF is_timeout(msg) THEN 10 ELSE 5

\* time.sleep before the next attempt
backoff(msg, attempt) == IF is_timeout(msg) THEN (2 ^ attempt) * 10 ELSE 5

\* what a successful attempt returns: extract_corrected_text(response.text) of
\* proofread_chunk gives None for a response without usable text,
\* response.text.strip() of translate_chunk gives ''
attempt_result(m, chunk, kind) ==
  IF kind = "text" THEN Transformed(chunk)
  ELSE IF m \in ProofreadModes THEN None ELSE <<>>

\* the ghost record of the classes of the errors the calls for a chunk raised
pure_after(pure, msg) ==
  IF pure = "none" \/ pure = msg THEN msg ELSE "mixed"

\* attempt_ends with one attempt more than max_retries
attempt_ends_one_more(t, m, chunk, kind) ==
  IF kind \notin ErrorKinds
  THEN task_done(t, returned(attempt_result(m, chunk, kind), FALSE))
  ELSE IF t.attempt < max_retries
  THEN [t EXCEPT !.st = "sleep", !.wait = backoff(kind, t.attempt),
                 !.pure = pure_after(t.pure, kind)]
  ELSE [task_done(t, returned(chunk, TRUE)) EXCEPT !.pure = pure_after(t.pure, kind)]

\* one attempt of the retry loop of proofread_chunk / translate_chunk ends
attempt_ends(t, m, chunk, kind) ==
  IF kind \notin ErrorKinds
  THEN task_done(t, returned(attempt_result(m, chunk, kind), FALSE))
  ELSE IF t.attempt < max_retries - 1
  THEN [t EXCEPT !.st = "sleep", !.wait = backoff(kind, t.attempt),
                 !.pure = pure_after(t.pure, kind)]
  ELSE [task_done(t, returned(chunk, TRUE)) EXCEPT !.pure = pure_after(t.pure, kind)]

\* model.generate_content returns or raises
CallReturns(j, i, kind) ==
  /\ i \in DOMAIN task[j]
  /\ task[j][i].st = "call"
  /\ kind \in env.kinds
  /\ task' = [task EXCEPT ![j][i] = attempt_ends(@, mode[j], chunks[j][i], kind)]
  /\ UNCHANGED <<chunk_vars, sock_vars, trial_vars, otp_vars, env, upload, now, progress_tracker, queue, pc, mode, language, ocr, text,
                 chunks, results, disp, rate_limit_lock, last_request_time,
                 output>>

\* the sleep after a failed attempt is over: "continue"
Retry(j, i) ==
  /\ i \in DOMAIN task[j]
  /\ task[j][i].st = "sleep"
  /\ task' = [task EXCEPT ![j][i] = call_started(@, @.attempt + 1)]
  /\ UNCHANGED <<chunk_vars, sock_vars, trial_vars, otp_vars, env, upload, now, progress_tracker, queue, pc, mode, language, ocr, text,
                 chunks, results, disp, rate_limit_lock, last_request_time,
                 output>>

\* "Proofreading" or "Translation": the operation_name of the progress status
operation_name(m) == IF m \in ProofreadModes THEN "Proofreading" ELSE "Translation"

\* as_completed yields the future of chunk i: completed += 1 and the progress
\* is published
CollectBegin(j, i) ==
  /\ pc[j] = "dispatch"
  /\ disp[j].submitted = Len(chunks[j])
  /\ disp[j].cur = 0
  /\ i \in DOMAIN task[j]
  /\ i \notin disp[j].collected
  /\ task[j][i].st = "done"
  /\ disp' = [disp EXCEPT ![j].completed = @ + 1, ![j].cur = i,
                          ![j].order = Append(@, i)]
  /\ progress_tracker' = [progress_tracker EXCEPT ![j] =
        update_progress(disp[j].completed + 1, Len(chunks[j]), operation_name(mode[j]))]
  /\ UNCHANGED <<chunk_vars, sock_vars, trial_vars, otp_vars, env, upload, now, queue, pc, mode, language, ocr, text, chunks, results, task,
                 rate_limit_lock, last_request_time, output>>

\* a test of the message that finds no rate limit
is_rate_limit_never(msg) == FALSE

\* "429" in str(e) or "quota" in str(e).lower() or "rate" in str(e).lower()
is_rate_limit(msg) == msg = "rate"

\* result_or_chunk without the replacement of a None or empty result
result_unchecked(result, chunk) == result

\* result if result else chunks[index]
result_or_chunk(result, chunk) ==
  IF result # None /\ result # <<>> THEN result ELSE chunk

\* slot_value without the except clause: the slot of a failed future stays None
slot_value_uncaught(out, chunk) ==
  IF out.kind = "ret" THEN result_or_chunk(out.val, chunk) ELSE None

\* the value the loop body stores for a completed future
slot_value(out, chunk) ==
  IF out.kind = "ret" THEN result_or_chunk(out.val, chunk) ELSE chunk

\* result_index with the results stored in completion order
result_index_by_completion(i, completed) == completed

\* index = future_to_index[future]: the slot of the future of chunk i, the
\* completed-th to complete
result_index(i, completed) == i

\* the rest of the loop body for the future of chunk disp[j].cur: the result
\* is stored; or, on a rate-limit error of the pool task, the dispatcher sleeps
\* 5 s and runs process_with_rate_limit itself, in the job's thread
CollectEnd(j) ==
  /\ pc[j] = "dispatch"
  /\ disp[j].cur # 0
  /\ LET i == disp[j].cur
         t == task[j][i]
     IN  /\ t.st = "done"
         /\ IF t.out.kind = "exc" /\ t.by = "pool" /\ is_rate_limit(t.out.msg)
            THEN /\ task' = [task EXCEPT ![j][i] =
                               [t EXCEPT !.st = "waitlock", !.by = "job",
                                         !.attempt = 0, !.out = NoOut]]
                 /\ UNCHANGED <<results, disp, output>>
            ELSE /\ LET index == result_index(i, disp[j].completed)
                     IN  /\ results' = [results EXCEPT ![j][index] =
                                           slot_value(t.out, chunks[j][i])]
                         /\ disp' = [disp EXCEPT ![j].cur = 0,
                                                 ![j].collected = @ \cup {i},
                                                 ![j].writes[index] = Append(@, i)]
                 /\ output' = [output EXCEPT ![j].failures =
                                  IF t.out.kind = "exc" \/ t.out.fallback
                                  THEN @ \cup {"chunk"} ELSE @]
                 /\ UNCHANGED task
  /\ UNCHANGED <<chunk_vars, sock_vars, trial_vars, otp_vars, env, upload, now, progress_tracker, queue, pc, mode, language, ocr,
                 text, chunks, rate_limit_lock, last_request_time>>

\* process_chunks_parallel returns and the results are joined:
\* '\n\n'.join(proofread_chunks); the locals of the call are gone
JoinResults(j) ==
  /\ pc[j] = "dispatch"
  /\ disp[j].submitted = Len(chunks[j])
  /\ disp[j].cur = 0
  /\ disp[j].collected = DOMAIN task[j]
  /\ IF \E i \in DOMAIN results[j] : results[j][i] = None
     THEN \* str.join raises TypeError on a None item
          /\ Fails(j, "join failed")
          /\ UNCHANGED text
     ELSE /\ text' = [text EXCEPT ![j] = PyJoin(<<"n", "n">>, results[j])]
          /\ pc' = [pc EXCEPT ![j] = "write"]
          /\ UNCHANGED progress_tracker
  /\ chunks' = [chunks EXCEPT ![j] = <<>>]
  /\ results' = [results EXCEPT ![j] = <<>>]
  /\ task' = [task EXCEPT ![j] = <<>>]
  /\ disp' = [disp EXCEPT ![j] = NoDisp]
  /\ UNCHANGED <<chunk_vars, sock_vars, trial_vars, otp_vars, env, upload, now, queue, mode, language, ocr,
                 rate_limit_lock, last_request_time, output>>

(***************************************************************************)
(* process_document_background: the output, the terminal entry, the e-mail *)
(* and the cleanup                                                         *)
(***************************************************************************)
\* output_filename = f"{base_name}_{job_id}_....docx"
output_name(m) == <<"o", "u", "t">>

\* DocumentHandler.save_raw_docx / create_formatted_document: output_filename
\* is set before the writer runs
WriteDocument(j, ok) ==
  /\ pc[j] = "write"
  /\ IF ok
     THEN /\ output' = [output EXCEPT ![j].output_filename = output_name(mode[j]),
                                      ![j].written = TRUE]
          /\ pc' = [pc EXCEPT ![j] = "complete"]
          /\ UNCHANGED progress_tracker
     ELSE /\ output' = [output EXCEPT ![j].output_filename = output_name(mode[j])]
          /\ Fails(j, "writer failed")
  /\ UNCHANGED <<chunk_vars, sock_vars, trial_vars, otp_vars, env, upload, now, queue, mode, language, ocr, text, chunks, results, task,
                 disp, rate_limit_lock, last_request_time>>

\* "Mark as complete": reached after the branch of the mode, or at once when
\* the mode has no branch
MarkComplete(j) ==
  /\ \/ pc[j] = "complete"
     \/ pc[j] = "started" /\ mode[j] \notin (OcrModes \cup DocxModes)
  /\ progress_tracker' = [progress_tracker EXCEPT ![j] =
                            complete_entry(output[j].output_filename)]
  /\ pc' = [pc EXCEPT ![j] =
              IF output[j].output_filename # None THEN "email" ELSE "schedule"]
  /\ UNCHANGED <<chunk_vars, sock_vars, trial_vars, otp_vars, env, upload, now, queue, mode, language, ocr, text, chunks, results, task,
                 disp, rate_limit_lock, last_request_time, output>>

\* an e-mail block that fails the job when the delivery fails
entry_failed_with_email(entry, r) ==
  IF r = "sent" THEN entry ELSE error_entry("email failed")

\* the entry after the e-mail block: a delivery that returns False is logged as
\* a warning, one that raises is caught and logged; the entry is not touched
entry_after_email(entry, r) == entry

\* send_document_email returns True or False, or raises; the job goes on
SendEmail(j, r) ==
  /\ pc[j] = "email"
  /\ output' = [output EXCEPT ![j].email = r]
  /\ progress_tracker' = [progress_tracker EXCEPT ![j] = entry_after_email(@, r)]
  /\ pc' = [pc EXCEPT ![j] = "schedule"]
  /\ UNCHANGED <<chunk_vars, sock_vars, trial_vars, otp_vars, env, upload, now, queue, mode, language, ocr, text, chunks,
                 results, task, disp, rate_limit_lock, last_request_time>>

\* schedule_file_cleanup: the timer is started and the background thread ends
ScheduleCleanup(j) ==
  /\ pc[j] = "schedule"
  /\ pc' = [pc EXCEPT ![j] = "scheduled"]
  /\ UNCHANGED <<chunk_vars, sock_vars, trial_vars, otp_vars, env, upload, now, progress_tracker, queue, mode, language, ocr, text, chunks,
                 results, task, disp, rate_limit_lock, last_request_time, output>>

\* cleanup_files, FILE_CLEANUP_DELAY after the job: the files and the entry go
CleanupFiles(j) ==
  /\ pc[j] = "scheduled"
  /\ progress_tracker' = [progress_tracker EXCEPT ![j] = NoEntry]
  /\ upload' = [upload EXCEPT ![j].file = "removed"]
  /\ pc' = [pc EXCEPT ![j] = "end"]
  /\ UNCHANGED <<chunk_vars, sock_vars, trial_vars, otp_vars, env, now, queue, mode, language, ocr, text, chunks, results, task,
                 disp, rate_limit_lock, last_request_time, output>>

ChunkIdle ==
  /\ in_text = <<>>
  /\ in_size = 1
  /\ out_chunks = <<>>
  /\ cpc = "off"
  /\ remaining = <<>>

JobsIdle ==
  JobInit([clients |-> {}, modes |-> {}, languages |-> {}, kinds |-> {}, pages |-> {},
           docs |-> {}])

\* one job, with every mode, language and behaviour of the external calls, on a
\* Word document or a one-page PDF
Init ==
  /\ ChunkIdle
  /\ JobInit([clients |-> {1}, modes |-> Modes, languages |-> {"set", "None"},
              kinds |-> Kinds, pages |-> {1}, docs |-> DocTexts])

\* final_chunks = self.chunk_text(text, max_chunk_size)
ChunkText ==
  /\ cpc = "input"
  /\ out_chunks' = chunk_text(in_text, in_size)
  /\ cpc' = "done"
  /\ UNCHANGED <<in_text, in_size, remaining, job_vars, sock_vars, trial_vars, otp_vars>>

Next ==
  \/ \E j \in Jobs, m \in Modes, lang \in {"set", "None"} : StartJob(j, m, lang)
  \/ \E j \in Jobs, n \in 1..MaxPages, ok \in BOOLEAN : OcrOpen(j, n, ok)
  \/ \E j \in Jobs, ok \in BOOLEAN : OcrConvert(j, ok)
  \/ \E j \in Jobs, p \in 0..(MaxPages - 1), o \in {"text", "blank", "fail"} :
        OcrPageDone(j, p, o)
  \/ \E j \in Jobs, p \in 0..(MaxPages - 1) : OcrCollect(j, p)
  \/ \E j \in Jobs : OcrBatchEnd(j)
  \/ \E j \in Jobs, t \in DocTexts, ok \in BOOLEAN : ReadDocx(j, t, ok)
  \/ \E j \in Jobs : StartDispatch(j)
  \/ \E j \in Jobs : Submit(j)
  \/ \E j \in Jobs, i \in Indices : StartTask(j, i)
  \/ \E j \in Jobs, i \in Indices : AcquireLock(j, i)
  \/ \E j \in Jobs, i \in Indices : ReleaseLock(j, i)
  \/ \E j \in Jobs, i \in Indices, kind \in Kinds : CallReturns(j, i, kind)
  \/ \E j \in Jobs, i \in Indices : Retry(j, i)
  \/ \E j \in Jobs, i \in Indices : CollectBegin(j, i)
  \/ \E j \in Jobs : CollectEnd(j)
  \/ \E j \in Jobs : JoinResults(j)
  \/ \E j \in Jobs, ok \in BOOLEAN : WriteDocument(j, ok)
  \/ \E j \in Jobs : MarkComplete(j)
  \/ \E j \in Jobs, r \in {"sent", "not sent", "raised"} : SendEmail(j, r)
  \/ \E j \in Jobs : ScheduleCleanup(j)
  \/ \E j \in Jobs : CleanupFiles(j)

Spec == Init /\ [][Next]_vars

\* the steps of jobs on Word documents
NextShared ==
  \/ \E j \in Jobs, m \in Modes, lang \in {"set", "None"} : StartJob(j, m, lang)
  \/ \E j \in Jobs, t \in DocTexts, ok \in BOOLEAN : ReadDocx(j, t, ok)
  \/ \E j \in Jobs : StartDispatch(j)
  \/ \E j \in Jobs : Submit(j)
  \/ \E j \in Jobs, i \in Indices : StartTask(j, i)
  \/ \E j \in Jobs, i \in Indices : AcquireLock(j, i)
  \/ \E j \in Jobs, i \in Indices : ReleaseLock(j, i)
  \/ \E j \in Jobs, i \in Indices, kind \in Kinds : CallReturns(j, i, kind)
  \/ \E j \in Jobs, i \in Indices : Retry(j, i)
  \/ \E j \in Jobs, i \in Indices : CollectBegin(j, i)
  \/ \E j \in Jobs : CollectEnd(j)
  \/ \E j \in Jobs : JoinResults(j)
  \/ \E j \in Jobs, ok \in BOOLEAN : WriteDocument(j, ok)
  \/ \E j \in Jobs : MarkComplete(j)
  \/ \E j \in Jobs, r \in {"sent", "not sent", "raised"} : SendEmail(j, r)
  \/ \E j \in Jobs : ScheduleCleanup(j)
  \/ \E j \in Jobs : CleanupFiles(j)

\* every job requested, on Word documents, sharing the pool; the model answers
\* or reports a rate limit
InitShared ==
  /\ ChunkIdle
  /\ JobInit([clients |-> Jobs, modes |-> {3}, languages |-> {"set"},
              kinds |-> {"text", "rate"}, pages |-> {},
              docs |-> {<<"a", "n", "n", "b">>}])

SpecShared == InitShared /\ [][NextShared]_vars

\* perform_ocr alone: one job of mode 1 on a PDF of 1..MaxPages pages
NextOcr ==
  \/ \E j \in Jobs, m \in Modes, lang \in {"set", "None"} : StartJob(j, m, lang)
  \/ \E j \in Jobs, n \in 1..MaxPages, ok \in BOOLEAN : OcrOpen(j, n, ok)
  \/ \E j \in Jobs, ok \in BOOLEAN : OcrConvert(j, ok)
  \/ \E j \in Jobs, p \in 0..(MaxPages - 1), o \in {"text", "blank", "fail"} :
        OcrPageDone(j, p, o)
  \/ \E j \in Jobs, p \in 0..(MaxPages - 1) : OcrCollect(j, p)
  \/ \E j \in Jobs : OcrBatchEnd(j)
  \/ \E j \in Jobs, ok \in BOOLEAN : WriteDocument(j, ok)
  \/ \E j \in Jobs : MarkComplete(j)
  \/ \E j \in Jobs, r \in {"sent", "not sent", "raised"} : SendEmail(j, r)
  \/ \E j \in Jobs : ScheduleCleanup(j)
  \/ \E j \in Jobs : CleanupFiles(j)

InitOcr ==
  /\ ChunkIdle
  /\ JobInit([clients |-> {1}, modes |-> {1}, languages |-> {"None"},
              kinds |-> {}, pages |-> 1..MaxPages, docs |-> {}])

SpecOcr == InitOcr /\ [][NextOcr]_vars

\* process_file and perform_ocr: one job of mode 1 on a PDF of up to
\* MAX_PDF_PAGES + 1 pages
InitUpload ==
  /\ ChunkIdle
  /\ JobInit([clients |-> {1}, modes |-> {1}, languages |-> {"None"},
              kinds |-> {}, pages |-> 1..(MAX_PDF_PAGES + 1), docs |-> {}])

SpecUpload == InitUpload /\ [][NextOcr]_vars

\* the steps of a job that reads a PDF and then processes the chunks of its text
NextPipeline ==
  \/ NextOcr
  \/ \E j \in Jobs : StartDispatch(j)
  \/ \E j \in Jobs : Submit(j)
  \/ \E j \in Jobs, i \in Indices : StartTask(j, i)
  \/ \E j \in Jobs, i \in Indices : AcquireLock(j, i)
  \/ \E j \in Jobs, i \in Indices : ReleaseLock(j, i)
  \/ \E j \in Jobs, i \in Indices, kind \in Kinds : CallReturns(j, i, kind)
  \/ \E j \in Jobs, i \in Indices : Retry(j, i)
  \/ \E j \in Jobs, i \in Indices : CollectBegin(j, i)
  \/ \E j \in Jobs : CollectEnd(j)
  \/ \E j \in Jobs : JoinResults(j)

\* one job of mode 2 or 4 on a PDF of one or two pages: perform_ocr, then
\* proofread_full_text or translate_full_text on the text of the pages
InitPipeline ==
  /\ ChunkIdle
  /\ JobInit([clients |-> {1}, modes |-> {2, 4}, languages |-> {"set"},
              kinds |-> {"text", "timeout"}, pages |-> {1, 2}, docs |-> {}])

SpecPipeline == InitPipeline /\ [][NextPipeline]_vars

InitChunk == ChunkInit /\ JobsIdle

NextChunk == ChunkText

SpecChunk == InitChunk /\ [][NextChunk]_vars

\* bounds of the two-paragraph inputs
MaxFirst == 2
MaxSecond == 6
MaxParaSize == 5

RECURSIVE TextsOver(_, _)
TextsOver(letters, n) ==
  IF n = 0 THEN {<<>>}
  ELSE {Append(t, c) : t \in TextsOver(letters, n - 1), c \in letters}

\* chunk_text is called on a first paragraph, the separator "\n\n" and a second
\* paragraph, with every max_chunk_size in 1..MaxParaSize
ParaInit ==
  /\ \E n1 \in 1..MaxFirst, n2 \in 1..MaxSecond :
       \E p1 \in TextsOver({"a", "s"}, n1), p2 \in TextsOver({"a", "s", "d"}, n2) :
         in_text = p1 \o <<"n", "n">> \o p2
  /\ in_size \in 1..MaxParaSize
  /\ out_chunks = <<>>
  /\ cpc = "input"
  /\ remaining = <<>>

InitPara == ParaInit /\ JobsIdle

SpecPara == InitPara /\ [][NextChunk]_vars

\* process_func raises: process_chunks_parallel accepts any function, and one
\* that does not catch the errors of its call lets them reach the future
FuncRaises(j, i, msg) ==
  /\ i \in DOMAIN task[j]
  /\ task[j][i].st = "call"
  /\ task' = [task EXCEPT ![j][i] = task_done(@, raised(msg))]
  /\ UNCHANGED <<chunk_vars, sock_vars, trial_vars, otp_vars, env, upload, now, progress_tracker, queue, pc, mode,
                 language, ocr, text, chunks, results, disp, rate_limit_lock,
                 last_request_time, output>>

\* process_chunks_parallel with a process_func that returns or raises
NextDispatch ==
  \/ NextShared
  \/ \E j \in Jobs, i \in Indices, msg \in ErrorKinds : FuncRaises(j, i, msg)

\* one job on a Word document of two chunks
InitDispatch ==
  /\ ChunkIdle
  /\ JobInit([clients |-> {1}, modes |-> {3, 5}, languages |-> {"set"},
              kinds |-> {"text", "rate"}, pages |-> {},
              docs |-> {<<"a", "n", "n", "b">>}])

SpecDispatch == InitDispatch /\ [][NextDispatch]_vars

(***************************************************************************)
(* The timeout of an attempt: proofread_chunk and translate_chunk, run by   *)
(* the threads of the pool                                                  *)
(***************************************************************************)
\* old_timeout = socket.getdefaulttimeout()
GetDefaultTimeout(w) ==
  /\ worker[w].pc = "attempt"
  /\ worker' = [worker EXCEPT ![w].old_timeout = default_timeout, ![w].pc = "saved"]
  /\ UNCHANGED <<chunk_vars, trial_vars, otp_vars, job_vars, default_timeout>>

\* socket.setdefaulttimeout(self.request_timeout); generate_content is called
SetDefaultTimeout(w) ==
  /\ worker[w].pc = "saved"
  /\ default_timeout' = request_timeout
  /\ worker' = [worker EXCEPT ![w].pc = "call"]
  /\ UNCHANGED <<chunk_vars, trial_vars, otp_vars, job_vars>>

\* generate_content returns or raises; finally: socket.setdefaulttimeout(old_timeout),
\* then the function returns, or the loop goes to its next attempt
RestoreDefaultTimeout(w, ok) ==
  /\ worker[w].pc = "call"
  /\ default_timeout' = worker[w].old_timeout
  /\ worker' = [worker EXCEPT
                  ![w].attempt = IF ok THEN @ ELSE @ + 1,
                  ![w].pc = IF ok \/ worker[w].attempt + 1 >= max_retries
                            THEN "returned" ELSE "attempt"]
  /\ UNCHANGED <<chunk_vars, trial_vars, otp_vars, job_vars>>

NextSocket ==
  \/ \E w \in 1..max_workers : GetDefaultTimeout(w)
  \/ \E w \in 1..max_workers : SetDefaultTimeout(w)
  \/ \E w \in 1..max_workers, ok \in BOOLEAN : RestoreDefaultTimeout(w, ok)

InitSocket == ChunkIdle /\ JobsIdle

\* the threads of the pool, each running the retry loop of one chunk
SpecSocket == InitSocket /\ [][NextSocket]_vars

(***************************************************************************)
(* The trial check of process_file, for requests of one user and one mode  *)
(* without payment_id, each handled by a thread of the server              *)
(***************************************************************************)
\* TRIAL_PAGES_LIMIT of auth.py: the trial pages of a user and mode
TRIAL_PAGES_LIMIT == 3
\* TRIAL_PAGE_LIMIT of utils.py: the pages of one trial document
TRIAL_PAGE_LIMIT == 3

\* validate_trial_limits, for a PDF: 'valid' of the result
validate_trial_limits(page_usage, remaining_pages) ==
  /\ ~(page_usage > remaining_pages)
  /\ ~(page_usage > TRIAL_PAGE_LIMIT)

\* file.save(input_path) and calculate_page_usage: a PDF of n pages
UploadDocument(j, n) ==
  /\ trial[j].pc = "idle"
  /\ trial' = [trial EXCEPT ![j].pc = "uploaded", ![j].page_usage = n]
  /\ UNCHANGED <<chunk_vars, otp_vars, job_vars, sock_vars, pages_used>>

\* check_trial_available reads pages_used; validate_trial_limits accepts the
\* document or the request is answered with 403
CheckTrial(j) ==
  /\ trial[j].pc = "uploaded"
  /\ LET remaining_pages == Max2(0, TRIAL_PAGES_LIMIT - pages_used)
     IN  trial' = [trial EXCEPT
                     ![j].remaining_pages = remaining_pages,
                     ![j].pc = IF validate_trial_limits(trial[j].page_usage,
                                                        remaining_pages)
                               THEN "valid" ELSE "rejected"]
  /\ UNCHANGED <<chunk_vars, otp_vars, job_vars, sock_vars, pages_used>>

\* increment_trial_usage(email, mode, pages=page_usage): $inc of pages_used
IncrementTrial(j) ==
  /\ trial[j].pc = "valid"
  /\ pages_used' = pages_used + trial[j].page_usage
  /\ trial' = [trial EXCEPT ![j].pc = "debited"]
  /\ UNCHANGED <<chunk_vars, otp_vars, job_vars, sock_vars>>

NextTrial ==
  \/ \E j \in Jobs, n \in 1..(TRIAL_PAGE_LIMIT + 1) : UploadDocument(j, n)
  \/ \E j \in Jobs : CheckTrial(j)
  \/ \E j \in Jobs : IncrementTrial(j)

InitTrial == ChunkIdle /\ JobsIdle

\* the /process requests of one user and mode, handled concurrently
SpecTrial == InitTrial /\ [][NextTrial]_vars

(***************************************************************************)
(* The one-time passcodes of one e-mail: store_otp, verify_otp and the     *)
(* thread of cleanup_expired_otps                                          *)
(***************************************************************************)
\* OTP_EXPIRY_MINUTES of auth.py
OTP_EXPIRY_MINUTES == 5
\* the passcodes stored, the calls of verify_otp and the minutes of a run
MaxStores == 2
MaxVerifies == 3
MaxClock == 7
\* the passcodes generate_otp draws from: 6 digits in the program, scaled down
Codes == {"1", "2"}

\* datetime.now() - timestamp > timedelta(minutes=OTP_EXPIRY_MINUTES)
expired(entry) == clock - entry.timestamp > OTP_EXPIRY_MINUTES

\* a verification that leaves the passcode in place
after_success_keeping(entry) == entry

\* "del otp_storage[email]" after a successful verification
after_success(entry) == NoOtp

\* store_otp(email, otp), after send_otp_email succeeded
StoreOtp(code) ==
  /\ otp_log.stored < MaxStores
  /\ otp_storage' = [otp |-> code, timestamp |-> clock, id |-> otp_log.stored + 1]
  /\ otp_log' = [otp_log EXCEPT !.stored = @ + 1]
  /\ UNCHANGED <<chunk_vars, job_vars, sock_vars, trial_vars, clock, otp_result, cleanup>>

\* verify_otp(email, otp), called by the /verify-otp request
VerifyOtp(guess) ==
  /\ otp_result.n < MaxVerifies
  /\ LET n == otp_result.n + 1
     IN  IF otp_storage = NoOtp
         THEN /\ otp_result' = [ok |-> FALSE, message |-> "OTP not found or expired",
                                n |-> n]
              /\ UNCHANGED <<otp_storage, otp_log>>
         ELSE IF expired(otp_storage)
         THEN /\ otp_storage' = NoOtp
              /\ otp_result' = [ok |-> FALSE, message |-> "OTP has expired", n |-> n]
              /\ UNCHANGED otp_log
         ELSE IF otp_storage.otp = guess
         THEN /\ otp_storage' = after_success(otp_storage)
              /\ otp_result' = [ok |-> TRUE, message |-> "OTP verified successfully",
                                n |-> n]
              /\ otp_log' = [otp_log EXCEPT !.verified = Append(@, otp_storage.id)]
         ELSE /\ otp_result' = [ok |-> FALSE, message |-> "Invalid OTP", n |-> n]
              /\ UNCHANGED <<otp_storage, otp_log>>
  /\ UNCHANGED <<chunk_vars, job_vars, sock_vars, trial_vars, clock, cleanup>>

\* a minute passes
Tick ==
  /\ clock < MaxClock
  /\ clock' = clock + 1
  /\ UNCHANGED <<chunk_vars, job_vars, sock_vars, trial_vars, otp_storage, otp_result, otp_log,
                 cleanup>>

\* cleanup_expired_otps wakes and collects the e-mails whose passcode expired
CleanupCollect ==
  /\ cleanup = "sleep"
  /\ otp_storage # NoOtp
  /\ expired(otp_storage)
  /\ cleanup' = "delete"
  /\ UNCHANGED <<chunk_vars, job_vars, sock_vars, trial_vars, otp_storage, clock, otp_result,
                 otp_log>>

\* "for email in expired_emails: del otp_storage[email]": the entry now stored
\* for the e-mail is deleted; when there is none the KeyError ends the thread
CleanupDelete ==
  /\ cleanup = "delete"
  /\ IF otp_storage # NoOtp
     THEN otp_storage' = NoOtp /\ cleanup' = "sleep"
     ELSE cleanup' = "dead" /\ UNCHANGED otp_storage
  /\ UNCHANGED <<chunk_vars, job_vars, sock_vars, trial_vars, clock, otp_result, otp_log>>

NextOtp ==
  \/ \E code \in Codes : StoreOtp(code)
  \/ \E guess \in Codes : VerifyOtp(guess)
  \/ Tick
  \/ CleanupCollect
  \/ CleanupDelete

InitOtp == ChunkIdle /\ JobsIdle

\* the requests /send-otp and /verify-otp for one e-mail, handled one at a
\* time, and the cleanup thread running beside them
SpecOtp == InitOtp /\ [][NextOtp]_vars

\* _force_split(text, max_chunk_size) is called: chunks = [], remaining = text
ForceSplitCall ==
  /\ cpc = "input"
  /\ remaining' = in_text
  /\ out_chunks' = <<>>
  /\ cpc' = "split"
  /\ UNCHANGED <<in_text, in_size, job_vars, sock_vars, trial_vars, otp_vars>>

\* one iteration of "while len(remaining) > max_chunk_size"
ForceSplitIter ==
  /\ cpc = "split"
  /\ Len(remaining) > in_size
  /\ LET split_point == force_split_point(remaining, in_size)
     IN  /\ out_chunks' = Append(out_chunks, Strip(Slice(remaining, 0, split_point)))
         /\ remaining' = Strip(Slice(remaining, split_point, Len(remaining)))
  /\ UNCHANGED <<in_text, in_size, cpc, job_vars, sock_vars, trial_vars, otp_vars>>

\* the loop ends: "if remaining: chunks.append(remaining)" and "return chunks"
ForceSplitReturn ==
  /\ cpc = "split"
  /\ Len(remaining) <= in_size
  /\ out_chunks' = IF remaining # <<>> THEN Append(out_chunks, remaining) ELSE out_chunks
  /\ cpc' = "done"
  /\ UNCHANGED <<in_text, in_size, remaining, job_vars, sock_vars, trial_vars, otp_vars>>

NextForce == ForceSplitCall \/ ForceSplitIter \/ ForceSplitReturn

\* _force_split step by step, on every text over Alphabet of length <= MaxLen
\* with every max_chunk_size in 1..MaxSize; the thread running it is not starved
SpecForce == InitChunk /\ [][NextForce]_vars /\ WF_vars(NextForce)


\* tasks take on their own once the job is started: everything but the request
\* that starts it, the call of chunk_text and the timer of the cleanup
JobStep(j) ==
  \/ \E t \in DocTexts, ok \in BOOLEAN : ReadDocx(j, t, ok)
  \/ Submit(j)
  \/ \E i \in Indices : StartTask(j, i)
  \/ \E i \in Indices : AcquireLock(j, i)
  \/ \E i \in Indices : ReleaseLock(j, i)
  \/ \E i \in Indices, kind \in Kinds : CallReturns(j, i, kind)
  \/ \E i \in Indices : Retry(j, i)
  \/ \E i \in Indices : CollectBegin(j, i)
  \/ CollectEnd(j)
  \/ JoinResults(j)
  \/ \E ok \in BOOLEAN : WriteDocument(j, ok)
  \/ MarkComplete(j)
  \/ \E r \in {"sent", "not sent", "raised"} : SendEmail(j, r)
  \/ ScheduleCleanup(j)

\* a thread that can take a step takes one: the threads of a job are not
\* starved, every external call returns or raises and every sleep ends; the
\* call of chunk_text (StartDispatch, a computation without waiting) returns
Fairness ==
  \A j \in Jobs : WF_vars(JobStep(j)) /\ []<>(pc[j] # "chunk")

\* every job requested, on Word documents, sharing the pool; every call of the
\* model reports a rate limit, so every chunk uses all its attempts and waits
InitLive ==
  /\ ChunkIdle
  /\ JobInit([clients |-> Jobs, modes |-> {3}, languages |-> {"set"},
              kinds |-> {"rate"}, pages |-> {},
              docs |-> {<<"a", "n", "n", "b">>}])

SpecLive == InitLive /\ [][NextShared]_vars /\ Fairness

\* the same jobs, where the timer started by schedule_file_cleanup also fires
SpecCleanup ==
  InitLive /\ [][NextShared]_vars /\ Fairness
    /\ \A j \in Jobs : WF_vars(CleanupFiles(j))

(***************************************************************************)
(* Properties                                                              *)
(***************************************************************************)
\* process_chunks_parallel of job j is about to return: every future was
\* yielded by as_completed and its loop body is over
AllCollected(j) ==
  /\ pc[j] = "dispatch"
  /\ disp[j].submitted = Len(chunks[j])
  /\ disp[j].cur = 0
  /\ disp[j].collected = DOMAIN task[j]

\* C1: whatever the order in which the pool tasks complete, when
\* process_chunks_parallel returns the result list is as long as the chunk list
\* and its i-th element is the transform of chunk i or chunk i itself.
C1_ResultsInIndexOrder ==
  \A j \in Jobs :
    AllCollected(j) =>
      /\ Len(results[j]) = Len(chunks[j])
      /\ \A i \in DOMAIN chunks[j] :
           results[j][i] \in {Transformed(chunks[j][i]), chunks[j][i]}

\* two chunks, the second completed first, both transformed
C1_Witness ==
  \E j \in Jobs :
    /\ AllCollected(j)
    /\ disp[j].order = <<2, 1>>
    /\ chunks[j][1] # chunks[j][2]
    /\ \A i \in {1, 2} : results[j][i] = Transformed(chunks[j][i])

\* C2: every chunk chunk_text returns is at most max_chunk_size long, for every
\* text and every max_chunk_size > 0.
C2_ChunkBound ==
  cpc = "done" => \A i \in DOMAIN out_chunks : Len(out_chunks[i]) <= in_size

\* a text without delimiter, longer than max_chunk_size, was force-split into
\* chunks one of which is exactly max_chunk_size long
C2_Witness ==
  /\ cpc = "done"
  /\ Len(in_text) > in_size
  /\ best_delimiter(in_text) = <<>>
  /\ Len(out_chunks) >= 2
  /\ \E i \in DOMAIN out_chunks : Len(out_chunks[i]) = in_size

C4_UnitFailuresDoNotFailJob ==
  \A j \in Jobs :
    /\ pc[j] = "failed" =>
         /\ ~output[j].written
         /\ progress_tracker[j].error = <<"True">>
         /\ progress_tracker[j].message \in
              {<<"unreadable source">>, <<"writer failed">>}
    /\ pc[j] \in {"email", "schedule", "scheduled"} =>
         progress_tracker[j].status = "Complete"

\* a job whose chunk fell back is Complete
C4_Witness ==
  \E j \in Jobs :
    /\ pc[j] = "scheduled"
    /\ "chunk" \in output[j].failures
    /\ output[j].written
    /\ progress_tracker[j].status = "Complete"

\* C5: while every call for a chunk has raised a timeout error there are at
\* most 3 calls, the third failure is followed by no wait and no call, and the
\* retry loop then returns the original chunk.
C5_TimeoutThreeCalls ==
  \A j \in Jobs : \A i \in DOMAIN task[j] :
    LET t == task[j][i]
    IN  t.pure = "timeout" =>
          /\ t.calls <= 3
          /\ t.st = "sleep" => t.calls < 3
          /\ (t.st = "done" /\ t.out.fallback) =>
               t.calls = 3 /\ t.out.val = chunks[j][i]

\* a chunk whose three calls timed out is stored unchanged
C5_Witness ==
  \E j \in Jobs : \E i \in DOMAIN task[j] :
    /\ task[j][i].pure = "timeout"
    /\ task[j][i].st = "done"
    /\ task[j][i].out.fallback
    /\ task[j][i].calls = 3
    /\ i \in disp[j].collected
    /\ results[j][i] = chunks[j][i]

\* C6: a chunk whose every call raised a rate-limit error is stored as its
\* fallback after exactly 4 calls.
C6_RateLimitFourCalls ==
  \A j \in Jobs : \A i \in DOMAIN task[j] :
    (/\ pc[j] = "dispatch"
     /\ i \in disp[j].collected
     /\ task[j][i].pure = "rate"
     /\ task[j][i].out.fallback)
    => task[j][i].calls = 4

\* C7: during process_chunks_parallel a slot is written at most once and only
\* for its own chunk, the slot of a collected chunk exactly once, and when the
\* call returns every slot is written and none is None.
C7_SlotsWrittenOnce ==
  \A j \in Jobs :
    pc[j] = "dispatch" =>
      \A i \in DOMAIN results[j] :
        /\ disp[j].writes[i] \in {<<>>, <<i>>}
        /\ i \in disp[j].collected <=> disp[j].writes[i] = <<i>>
        /\ i \in disp[j].collected => results[j][i] # None
        /\ AllCollected(j) => disp[j].writes[i] = <<i>>

\* the call returns with two slots written, one of them for a None result
C7_Witness ==
  \E j \in Jobs :
    /\ AllCollected(j)
    /\ Len(chunks[j]) = 2
    /\ \E i \in DOMAIN task[j] :
         /\ task[j][i].out.kind = "ret"
         /\ task[j][i].out.val = None
         /\ results[j][i] = chunks[j][i]

\* C8: the external generative calls in flight, over all jobs, never exceed
\* the number of worker threads of the shared pool.
C8_PoolBound == Cardinality(InFlight) <= max_workers

\* the pool is full with calls of two jobs while a task waits in the queue
C8_Witness ==
  /\ Cardinality(InFlight) = max_workers
  /\ queue # <<>>
  /\ \E a \in InFlight, b \in InFlight : a[1] # b[1]

\* the latest return of the locked section of process_with_rate_limit, in any job
LastAcquire ==
  CHOOSE t \in {last_request_time[j] : j \in Jobs} :
    \A j \in Jobs : last_request_time[j] <= t

\* C9: a return of the locked section of process_with_rate_limit comes at least
\* min_request_interval after the previous return in the process, whichever
\* job made it.
C9_AcquiresSpaced ==
  [][last_request_time' # last_request_time =>
       now' - LastAcquire >= min_request_interval]_vars

\* C10: an entry with status Complete carries an output file, an entry in the
\* error state carries a message.
C10_TerminalEntries ==
  \A j \in Jobs :
    /\ progress_tracker[j].status = "Complete" =>
         progress_tracker[j].output_file \notin {None, Absent, <<>>}
    /\ progress_tracker[j].error = <<"True">> =>
         progress_tracker[j].message # Absent

\* C11: with fair scheduling and external calls that return or raise, every
\* started job eventually has a terminal progress entry (Complete or Error),
\* whatever the other job sharing the pool does.
C11_JobsTerminate ==
  \A j \in Jobs :
    (pc[j] = "started") ~> (progress_tracker[j].status \in {"Complete", "Error"})

\* both jobs have shared the pool and have their terminal entries, one of them
\* after a chunk took its fallback
C11_Witness ==
  /\ \A j \in Jobs : /\ pc[j] \in {"email", "schedule", "scheduled", "failed"}
                     /\ progress_tracker[j].status \in {"Complete", "Error"}
  /\ \E j \in Jobs : "chunk" \in output[j].failures /\ output[j].written

\* C12: no chunk chunk_text returns is empty or made of whitespace only, for
\* every text and every max_chunk_size > 0.
C12_NoEmptyChunk ==
  cpc = "done" => \A i \in DOMAIN out_chunks : Strip(out_chunks[i]) # <<>>

\* C13: _force_split terminates for every text and every max_chunk_size > 0:
\* every iteration of its loop strictly shortens the remaining text, and the
\* call returns.
C13_ForceSplitTerminates ==
  /\ [][(cpc = "split" /\ cpc' = "split") => Len(remaining') < Len(remaining)]_vars
  /\ <>(cpc = "done")

\* a single token without whitespace or delimiter, five times max_chunk_size
\* long, was split by five iterations' worth of hard cuts
C13_Witness ==
  /\ cpc = "done"
  /\ best_delimiter(in_text) = <<>>
  /\ \A k \in DOMAIN in_text : in_text[k] \notin Whitespace
  /\ Len(in_text) = 5 * in_size
  /\ Len(out_chunks) = 5
  /\ out_chunks = force_split(in_text, in_size)

\* the maximal runs of non-whitespace characters of a text, in order
RECURSIVE Tokens(_)
Tokens(t) ==
  IF t = <<>> THEN <<>>
  ELSE IF Head(t) \in Whitespace THEN Tokens(Tail(t))
  ELSE LET W == {k \in 1..Len(t) : t[k] \in Whitespace}
           e == IF W = {} THEN Len(t) + 1 ELSE CHOOSE k \in W : \A m \in W : k <= m
       IN  <<SubSeq(t, 1, e - 1)>> \o Tokens(SubSeq(t, e, Len(t)))

\* a is b with zero or more elements left out
RECURSIVE IsSubseq(_, _)
IsSubseq(a, b) ==
  IF a = <<>> THEN TRUE
  ELSE IF b = <<>> THEN FALSE
  ELSE IF Head(a) = Head(b) THEN IsSubseq(Tail(a), Tail(b))
  ELSE IsSubseq(a, Tail(b))

\* the chunks joined as proofread_full_text and translate_full_text join them
joined_chunks == PyJoin(<<"n", "n">>, out_chunks)

\* C14: the chunks of chunk_text joined in index order contain every
\* non-whitespace token of the input, intact and in the original order.
C14_TokensIntact ==
  cpc = "done" => IsSubseq(Tokens(in_text), Tokens(joined_chunks))

\* a text with every whitespace character left out
RemoveWhitespace(t) == SelectSeq(t, LAMBDA c : c \notin Whitespace)

\* C15: the chunks of chunk_text concatenated in index order, whitespace
\* removed, equal the input with whitespace removed: no non-whitespace
\* character is dropped, duplicated or moved.
C15_NonWhitespaceKept ==
  cpc = "done" =>
    RemoveWhitespace(Flatten(out_chunks)) = RemoveWhitespace(in_text)

\* a text with a delimiter, a space and a newline whose parts are closed by
\* _split_large_text, by _force_split and by the paragraph loop
C15_Witness ==
  /\ cpc = "done"
  /\ Len(out_chunks) >= 3
  /\ Len(in_text) = MaxLen
  /\ \E k \in DOMAIN in_text : in_text[k] = "d"
  /\ \E k \in DOMAIN in_text : in_text[k] \in Whitespace
  /\ RemoveWhitespace(in_text) # in_text
  /\ RemoveWhitespace(Flatten(out_chunks)) = RemoveWhitespace(in_text)

\* a non-empty text that is one token: no whitespace and no delimiter
SingleToken(t) ==
  /\ t # <<>>
  /\ \A k \in DOMAIN t : t[k] \notin Whitespace
  /\ best_delimiter(t) = <<>>

\* ceil(a / b) for b > 0
CeilDiv(a, b) == (a + b - 1) \div b

\* C16: a single token of length L > 0 without whitespace or delimiter yields
\* ceil(L / max_chunk_size) chunks, none empty, whose concatenation is the
\* token (5 chunks for L = 5 x max_chunk_size).
C16_SingleTokenChunks ==
  (cpc = "done" /\ SingleToken(in_text)) =>
    /\ Len(out_chunks) = CeilDiv(Len(in_text), in_size)
    /\ \A i \in DOMAIN out_chunks : out_chunks[i] # <<>>
    /\ Flatten(out_chunks) = in_text

\* the spec's case: a token of length 5 x max_chunk_size gives 5 chunks
C16_Witness ==
  /\ cpc = "done"
  /\ SingleToken(in_text)
  /\ Len(in_text) = 5 * in_size
  /\ Len(out_chunks) = 5
  /\ \A i \in DOMAIN out_chunks : Len(out_chunks[i]) = in_size

\* the paragraphs of a text, as chunk_text splits them
paragraphs == PySplit(in_text, <<"n", "n">>)

\* a short first paragraph, a separator and a longer second paragraph, neither
\* blank, of total length between max_chunk_size and 2 x max_chunk_size
ShortThenLong ==
  /\ Len(paragraphs) = 2
  /\ Strip(paragraphs[1]) # <<>>
  /\ Strip(paragraphs[2]) # <<>>
  /\ Len(paragraphs[1]) < Len(paragraphs[2])
  /\ in_size < Len(in_text)
  /\ Len(in_text) < 2 * in_size

\* exactly two chunks, neither longer than max_chunk_size, cut at the
\* paragraph boundary
TwoChunksAtBoundary ==
  /\ Len(out_chunks) = 2
  /\ \A i \in DOMAIN out_chunks : Len(out_chunks[i]) <= in_size
  /\ out_chunks[1] = Strip(paragraphs[1])
  /\ out_chunks[2] = Strip(paragraphs[2])

C18_ShortTextOneChunk ==
  (cpc = "done" /\ Len(in_text) < in_size) =>
    IF in_text = <<>> THEN out_chunks = <<>> ELSE Len(out_chunks) = 1

\* perform_ocr returns: the step that ends the last batch
OcrReturns(j) == ocr[j].phase = "extract" /\ ocr'[j].phase = "returned"

\* the texts the page calls returned, in page order, empty ones left out,
\* joined by blank lines
pages_in_order(o) == PyJoin(<<"n", "n">>, NonEmpty(o.future))

\* C19: for an N-page source the text perform_ocr returns is assembled from
\* exactly N page entries in page order: results holds for every page what the
\* page's call returned (its text, or "" when it failed or found none),
\* whatever the completion order of the calls within and across batches.
C19_PagesInOrder ==
  [][\A j \in Jobs :
       OcrReturns(j) =>
         LET o == ocr[j]
         IN  /\ DOMAIN o.results = 1..o.total_pages
             /\ \A p \in 1..o.total_pages :
                  /\ o.results[p] = o.future[p]
                  /\ o.results[p] \in {PageText(p - 1), <<>>}
             /\ text'[j] = IF mode[j] = 2 THEN ReplaceNewlines(pages_in_order(o))
                           ELSE pages_in_order(o)]_vars

\* a document of MaxPages pages was read although page 2 was collected before
\* page 1 and the third page failed
C19_Witness ==
  /\ ocr[1].phase = "returned"
  /\ ocr[1].total_pages = MaxPages
  /\ ocr[1].order[1] = 1
  /\ ocr[1].order[2] = 0
  /\ "page" \in output[1].failures
  /\ text[1] = PyJoin(<<"n", "n">>,
                      <<PageText(0), PageText(1)>>
                        \o [k \in 1..(MaxPages - 3) |-> PageText(k + 2)])

\* the size of batch k of an N-page document
batch_size(N, k) == Min2(BATCH_SIZE, N - (k - 1) * BATCH_SIZE)

\* C20: perform_ocr works in ceil(N / BATCH_SIZE) consecutive batches of
\* BATCH_SIZE pages, the last possibly smaller; at most BATCH_SIZE images are
\* held and at most BATCH_SIZE page calls are in flight at any moment, and a
\* batch is rendered only when every page call of the batches before it has
\* completed.
C20_Batches ==
  \A j \in Jobs :
    LET o == ocr[j]
        N == o.total_pages
        in_flight == {p \in 1..Len(o.page) : o.page[p] = "running"}
    IN  /\ Cardinality(o.images) <= BATCH_SIZE
        /\ Cardinality(in_flight) <= BATCH_SIZE
        /\ \A k \in DOMAIN o.batches : o.batches[k] = batch_size(N, k)
        /\ o.phase = "convert" =>
             /\ Len(o.batches) * BATCH_SIZE = o.start_idx
             /\ \A p \in 1..N :
                  o.page[p] = IF p <= o.start_idx THEN "collected" ELSE "none"
        /\ o.phase = "extract" =>
             \A p \in 1..N :
               /\ p <= o.start_idx => o.page[p] = "collected"
               /\ p > o.start_idx + BATCH_SIZE => o.page[p] = "none"
        /\ o.phase = "returned" => Len(o.batches) = CeilDiv(N, BATCH_SIZE)

\* a document of 2 x BATCH_SIZE + 1 pages was read in batches of sizes
\* BATCH_SIZE, BATCH_SIZE and 1
C20_Witness ==
  /\ ocr[1].phase = "returned"
  /\ ocr[1].total_pages = 2 * BATCH_SIZE + 1
  /\ ocr[1].batches = <<BATCH_SIZE, BATCH_SIZE, 1>>
  /\ Len(ocr[1].order) = 2 * BATCH_SIZE + 1

\* the pages of a document rendered so far, and those whose text was collected
converted(o) == o.start_idx + Cardinality(o.images)
collected(o) == {p \in 1..Len(o.page) : o.page[p] = "collected"}

\* C21: during perform_ocr on N pages every progress update has total 2N and
\* a current one above the update before it, never above the total; every
\* page counts one convert step and one extract step, its convert step first;
\* current is 2N when perform_ocr returns.
C21_OcrProgress ==
  /\ [][\A j \in Jobs :
          (pc[j] = "ocr" /\ pc'[j] = "ocr"
             /\ progress_tracker'[j] # progress_tracker[j]) =>
            /\ progress_tracker'[j].total = 2 * ocr[j].total_pages
            /\ progress_tracker'[j].current = ocr[j].completed_steps + 1
            /\ progress_tracker'[j].current = ocr'[j].completed_steps
            /\ progress_tracker'[j].current <= progress_tracker'[j].total
            /\ progress_tracker'[j].status \in
                 {"Converting page", "OCR Processing page"}]_vars
  /\ [][\A j \in Jobs :
          OcrReturns(j) =>
            /\ progress_tracker[j].current = 2 * ocr[j].total_pages
            /\ progress_tracker[j].total = 2 * ocr[j].total_pages]_vars
  /\ [](\A j \in Jobs :
          pc[j] = "ocr" =>
            /\ ocr[j].completed_steps
                 = converted(ocr[j]) + Cardinality(collected(ocr[j]))
            /\ progress_tracker[j].current = ocr[j].completed_steps
            /\ \A p \in collected(ocr[j]) : p <= converted(ocr[j]))

\* perform_ocr has returned on a document of MaxPages pages and the entry
\* shows 2 x MaxPages steps of 2 x MaxPages
C21_Witness ==
  /\ pc[1] = "write"
  /\ ocr[1].phase = "returned"
  /\ ocr[1].total_pages = MaxPages
  /\ progress_tracker[1].current = 2 * MaxPages
  /\ progress_tracker[1].total = 2 * MaxPages
  /\ progress_tracker[1].percentage = 100
  /\ progress_tracker[1].status = "OCR Processing page"

\* C22: a PDF with more pages than MAX_PDF_PAGES is rejected before any
\* processing: its request leaves no progress entry, no background job, no
\* rendered or extracted page, no trial debit and no uploaded file, and the
\* rejection is final: nothing is done for the request afterwards.
C22_OversizedRejected ==
  /\ [](\A j \in Jobs :
          upload[j].pages > MAX_PDF_PAGES =>
            /\ pc[j] = "rejected"
            /\ progress_tracker[j] = NoEntry
            /\ ocr[j] = NoOcr
            /\ task[j] = <<>>
            /\ output[j] = NoOutput
            /\ ~upload[j].debited
            /\ upload[j].file = "removed")
  /\ [][\A j \in Jobs :
          pc[j] = "rejected" =>
            /\ pc'[j] = "rejected"
            /\ upload'[j] = upload[j]
            /\ progress_tracker'[j] = NoEntry]_vars

\* a request with a PDF of MAX_PDF_PAGES + 1 pages was rejected
C22_Witness ==
  /\ pc[1] = "rejected"
  /\ upload[1] = [file |-> "removed", pages |-> MAX_PDF_PAGES + 1, debited |-> FALSE]
  /\ progress_tracker[1] = NoEntry

\* C23: every progress entry created for a job is eventually removed: after
\* the job ends, Complete or failed, the scheduled cleanup deletes its entry.
C23_EntriesRemoved ==
  \A j \in Jobs :
    (progress_tracker[j] # NoEntry) ~> (progress_tracker[j] = NoEntry)

\* C24: the delivery e-mail is attempted only when the job's entry is already
\* Complete, and whether it is sent, returns False or raises, the entry stays
\* Complete with the same output reference (until the cleanup removes it).
C24_EmailAfterComplete ==
  /\ [][\A j \in Jobs :
          output'[j].email # output[j].email =>
            /\ progress_tracker[j] = complete_entry(output[j].output_filename)
            /\ progress_tracker'[j] = progress_tracker[j]
            /\ output'[j].output_filename = output[j].output_filename]_vars
  /\ [](\A j \in Jobs :
          (output[j].email # "none" /\ pc[j] # "end") =>
            /\ progress_tracker[j].status = "Complete"
            /\ progress_tracker[j].output_file = output[j].output_filename
            /\ output[j].output_filename # None)

\* the delivery raised and the job is still Complete with its output file
C24_Witness ==
  /\ output[1].email = "raised"
  /\ pc[1] = "scheduled"
  /\ progress_tracker[1].status = "Complete"
  /\ progress_tracker[1].output_file = output[1].output_filename
  /\ output[1].written

\* the step of task i of job j is the sleep of a failed attempt ending
Resumes(j, i) ==
  /\ i \in DOMAIN task[j]
  /\ task[j][i].st = "sleep"
  /\ task'[j][i] # task[j][i]

\* after a sleep the next attempt starts
NextAttempt(j, i) ==
  /\ task'[j][i].st = "call"
  /\ task'[j][i].attempt = task[j][i].attempt + 1
  /\ task'[j][i].calls = task[j][i].calls + 1

C26_TimeoutInForce ==
  \A w \in 1..max_workers :
    worker[w].pc = "call" => default_timeout = request_timeout

\* C27: the retry policy covers the vision calls: a page whose call fails takes
\* its fallback only after 3 attempts in total.
C27_VisionRetried ==
  [][\A j \in Jobs, p \in 0..(MaxPages - 1) :
       OcrPageDone(j, p, "fail") => ocr'[j].calls[p + 1] = max_retries]_vars

\* the loop body of process_chunks_parallel handles the completed future of
\* chunk i of job j
Handles(j, i) ==
  /\ disp[j].cur = i
  /\ task[j][i].st = "done"
  /\ disp'[j] # disp[j] \/ task'[j][i] # task[j][i]

\* C28: when the pool task of a chunk ends with an error, the dispatcher runs
\* the transform for the chunk once more if and only if the message matches a
\* rate-limit signature; after any other error, and after a retry that fails
\* too, it stores the original chunk and makes no further call.
C28_DispatcherRetry ==
  /\ [][\A j \in Jobs, i \in Indices :
          Handles(j, i) =>
            IF task[j][i].out.kind = "exc" /\ task[j][i].by = "pool"
                 /\ task[j][i].out.msg = "rate"
            THEN /\ task'[j][i].by = "job"
                 /\ task'[j][i].st = "waitlock"
                 /\ task[j][i].runs = 1
                 /\ results'[j] = results[j]
                 /\ disp'[j] = disp[j]
            ELSE /\ task'[j][i] = task[j][i]
                 /\ i \in disp'[j].collected
                 /\ task[j][i].out.kind = "exc" =>
                      results'[j][i] = chunks[j][i]]_vars
  /\ [](\A j \in Jobs :
          \A i \in disp[j].collected :
            /\ task[j][i].st = "done"
            /\ task[j][i].runs = (IF task[j][i].by = "job" THEN 2 ELSE 1)
            /\ task[j][i].out.kind = "exc" => results[j][i] = chunks[j][i])

\* the pool task of a chunk raised a rate-limit error, the dispatcher ran the
\* transform once more, that run raised too and the slot holds the chunk
C28_Witness ==
  \E i \in disp[1].collected :
    /\ task[1][i].by = "job"
    /\ task[1][i].runs = 2
    /\ task[1][i].out = raised("rate")
    /\ results[1][i] = chunks[1][i]

\* C29: for every sequence of timeouts and other errors, one call of
\* proofread_chunk / translate_chunk makes at most 3 attempts, waits 5 s after
\* a failure that is not a timeout and not the last attempt, returns at the
\* first attempt that succeeds and makes no attempt after it.
C29_MixedErrors ==
  /\ [](\A j \in Jobs :
          \A i \in DOMAIN task[j] :
            /\ task[j][i].attempt <= max_retries - 1
            /\ task[j][i].calls <= max_retries * task[j][i].runs
            /\ task[j][i].st \in {"call", "sleep"} =>
                 task[j][i].calls = max_retries * (task[j][i].runs - 1)
                                      + task[j][i].attempt + 1)
  /\ [][\A j \in Jobs, i \in Indices :
          /\ \A kind \in {"rate", "other"} :
               CallReturns(j, i, kind) =>
                 IF task[j][i].attempt < max_retries - 1
                 THEN task'[j][i].st = "sleep" /\ task'[j][i].wait = 5
                 ELSE /\ task'[j][i].st = "done"
                      /\ task'[j][i].out = returned(chunks[j][i], TRUE)
          /\ \A kind \in {"text", "blank"} :
               CallReturns(j, i, kind) =>
                 /\ task'[j][i].st = "done"
                 /\ task'[j][i].out.kind = "ret"
                 /\ ~task'[j][i].out.fallback
          /\ (i \in DOMAIN task[j] /\ i \in DOMAIN task'[j]
                /\ task[j][i].st = "done" /\ task'[j][i].by = task[j][i].by) =>
               task'[j][i] = task[j][i]]_vars

\* two attempts failed with errors of different classes and the third returned
\* the answer of the model
C29_Witness ==
  \E i \in DOMAIN task[1] :
    /\ task[1][i].st = "done"
    /\ task[1][i].pure = "mixed"
    /\ task[1][i].calls = 3
    /\ task[1][i].runs = 1
    /\ task[1][i].out = returned(Transformed(chunks[1][i]), FALSE)

\* the external calls of job j that are running
CallsInFlight(j) == {i \in DOMAIN task[j] : task[j][i].st = "call"}

\* C30: the rate-limiter lock is released before the wrapped call starts and
\* is never held while it runs, so several calls of one job can be in flight
\* together, up to the size of the pool; acquiring never fails: a task that
\* waits for the lock gets it, and a task that holds it goes on to its call.
C30_LockNotHeldInCall ==
  /\ [](\A j \in Jobs :
          /\ rate_limit_lock[j] # 0 =>
               /\ rate_limit_lock[j] \in DOMAIN task[j]
               /\ task[j][rate_limit_lock[j]].st = "locked"
          /\ \A i \in CallsInFlight(j) : rate_limit_lock[j] # i
          /\ Cardinality(CallsInFlight(j)) <= max_workers)
  /\ [][\A j \in Jobs, i \in Indices :
          (i \in DOMAIN task[j] /\ i \in DOMAIN task'[j]
             /\ task'[j][i] # task[j][i]) =>
            /\ task[j][i].st = "waitlock" =>
                 task'[j][i].st = "locked" /\ rate_limit_lock'[j] = i
            /\ task[j][i].st = "locked" =>
                 /\ task'[j][i].runs = task[j][i].runs + 1
                 /\ rate_limit_lock[j] = i
                 /\ rate_limit_lock'[j] = 0]_vars

\* two calls of one job are running and a third task could take the lock
C30_Witness ==
  /\ Cardinality(CallsInFlight(1)) = max_workers
  /\ max_workers >= 2
  /\ rate_limit_lock[1] = 0

\* the statuses update_progress is called with
ProgressStatuses ==
  {"Converting page", "OCR Processing page", "Proofreading", "Translation"}

\* C31: every write of the entry of a job replaces the whole entry: after a
\* write of update_progress the entry holds current, total, status and
\* percentage only (the user reference and the page usage of the starting entry
\* are gone), the Complete entry has no page usage, the Error entry has neither
\* user reference nor page usage; and a step that writes the entry of one job
\* leaves the entry of every other job as it was, however the jobs interleave.
C31_WholeEntryReplaced ==
  [][\A j \in Jobs :
       progress_tracker'[j] # progress_tracker[j] =>
         LET e == progress_tracker'[j]
         IN  /\ \A k \in Jobs \ {j} : progress_tracker'[k] = progress_tracker[k]
             /\ e.status \in ProgressStatuses =>
                  /\ e.user_email = Absent /\ e.page_usage = Absent
                  /\ e.output_file = Absent /\ e.error = Absent
                  /\ e.percentage = percentage(e.current, e.total)
             /\ e.status = "Complete" => e.page_usage = Absent /\ e.error = Absent
             /\ e.status = "Error" =>
                  /\ e.user_email = Absent /\ e.page_usage = Absent
                  /\ e.output_file = Absent]_vars

\* a job has published the progress of its chunks, which dropped the user
\* reference and the page usage, while the other job still has its starting entry
C31_Witness ==
  /\ progress_tracker[1].status = "Proofreading"
  /\ progress_tracker[1].user_email = Absent
  /\ progress_tracker[1].page_usage = Absent
  /\ progress_tracker[2] = starting_entry
  /\ pc[2] = "dispatch"

\* the result slots of job j that were written
SlotsWritten(j) == {i \in DOMAIN disp[j].writes : disp[j].writes[i] # <<>>}

\* C32: the completed count published by process_chunks_parallel never runs
\* ahead of the work done: while a job dispatches and its entry shows
\* (completed, total), at least `completed` result slots were written.
C32_CountNotAhead ==
  \A j \in Jobs :
    (pc[j] = "dispatch" /\ progress_tracker[j].status \in {"Proofreading", "Translation"})
      => Cardinality(SlotsWritten(j)) >= progress_tracker[j].current

\* the segments of a paragraph that _split_large_text hands to _force_split:
\* those that, with their delimiter put back, are longer than max_chunk_size
\* (given here without that delimiter), or the whole paragraph when no
\* delimiter occurs in it
force_split_inputs(paragraph, max_chunk_size) ==
  LET delim == best_delimiter(paragraph)
      segments == PySplit(paragraph, delim)
  IN  IF delim # <<>>
      THEN {segments[i] : i \in {k \in 1..Len(segments) :
               Len(segments[k]) + (IF k < Len(segments) THEN Len(delim) ELSE 0)
                 > max_chunk_size}}
      ELSE {paragraph}

\* C33: a paragraph longer than max_chunk_size is split on the first delimiter
\* of the priority list that occurs in it, a fragment still longer than
\* max_chunk_size is split again on the next delimiter that occurs in it, and
\* only text in which no delimiter occurs is force-split.
C33_ForceSplitOnlyWithoutDelimiter ==
  cpc = "done" =>
    \A k \in 1..Len(paragraphs) :
      Len(paragraphs[k]) > in_size =>
        \A s \in force_split_inputs(paragraphs[k], in_size) :
          best_delimiter(s) = <<>>

\* the indices of the line breaks and spaces in the window of _force_split:
\* the ForceSplitLookback characters before the max_chunk_size cut point
BreaksInWindow(rem, max_chunk_size) ==
  {i \in Max2(0, max_chunk_size - ForceSplitLookback)..(max_chunk_size - 1) :
     i < Len(rem) /\ rem[i + 1] \in {"n", "s"}}

\* C34: in every iteration of its loop _force_split cuts just after a line
\* break or a space whenever the window before the max_chunk_size cut point
\* holds one, and cuts at exactly max_chunk_size only when it holds neither.
C34_CutAfterBreak ==
  (cpc = "split" /\ Len(remaining) > in_size) =>
    LET split_point == force_split_point(remaining, in_size)
        breaks == BreaksInWindow(remaining, in_size)
    IN  IF breaks # {}
        THEN split_point \in {i + 1 : i \in breaks}
        ELSE split_point = in_size

\* C35: once every thread has finished the attempts of its chunk, the socket
\* default of the process is the value it had before the first attempt
\* started, however the save, set and restore steps interleaved.
C35_TimeoutRestored ==
  (\A w \in 1..max_workers : worker[w].pc = "returned")
    => default_timeout = NoTimeout

\* the entry of job j shows a terminal state
Terminal(j) == progress_tracker[j].status \in {"Complete", "Error"}

\* the tasks of job j that are queued or running: chunk tasks of the shared
\* pool and page tasks of the batch pool
TasksPending(j) ==
  {i \in DOMAIN task[j] : task[j][i].st \notin {"new", "done"}}
    \cup {p \in DOMAIN ocr[j].page : ocr[j].page[p] = "running"}
    \cup {k \in DOMAIN queue : queue[k][1] = j}

\* C36: once the entry of a job shows Complete or Error, no task of the job is
\* queued or running, and the entry is not written again: its only change from
\* then on is its deletion by the scheduled cleanup.
C36_TerminalIsFinal ==
  /\ [](\A j \in Jobs : Terminal(j) => TasksPending(j) = {})
  /\ [][\A j \in Jobs :
          (Terminal(j) /\ progress_tracker'[j] # progress_tracker[j]) =>
            /\ pc[j] = "scheduled"
            /\ progress_tracker'[j] = NoEntry]_vars

\* a job that processed its chunks is Complete, its e-mail failed, its cleanup
\* is scheduled and its entry is still the Complete entry
C36_Witness ==
  /\ progress_tracker[1] = complete_entry(output_name(mode[1]))
  /\ mode[1] \in ProofreadModes \cup TranslateModes
  /\ output[1].email = "raised"
  /\ pc[1] = "scheduled"

\* C37: from the start of a job until its terminal state the percentage of its
\* entry stays within 0..100 and never decreases, through the conversion of the
\* pages, their OCR and the proofreading or translation of the chunks (the
\* Error entry and the deletion of the entry are left aside).
C37_PercentageMonotone ==
  [][\A j \in Jobs :
       (progress_tracker[j].status # "no entry"
          /\ progress_tracker'[j].status \notin {"Error", "no entry"}) =>
         /\ progress_tracker'[j].percentage \in 0..100
         /\ progress_tracker'[j].percentage >= progress_tracker[j].percentage]_vars

\* the locked section of process_with_rate_limit returns for chunk i of job j
SectionReturns(j, i) ==
  /\ i \in DOMAIN task[j]
  /\ i \in DOMAIN task'[j]
  /\ task[j][i].st = "locked"
  /\ task'[j][i].st # "locked"

\* C38: within one job, a return of the locked section of
\* process_with_rate_limit comes at least min_request_interval after the
\* previous return of the same job, whichever threads made the two (threads
\* of the pool or the thread of the job), and it records its own time.
C38_JobAcquiresSpaced ==
  [][\A j \in Jobs, i \in Indices :
       SectionReturns(j, i) =>
         /\ now' - last_request_time[j] >= min_request_interval
         /\ last_request_time'[j] = now']_vars

\* a thread sleeps inside the locked section, less than min_request_interval
\* after the previous return, while the job's own thread waits for the lock
\* to run a chunk again
C38_Witness ==
  \E i \in DOMAIN task[1], k \in DOMAIN task[1] :
    /\ task[1][i].st = "locked"
    /\ task[1][i].wait = last_request_time[1] + min_request_interval
    /\ task[1][i].wait > now
    /\ last_request_time[1] > 0
    /\ task[1][k].st = "waitlock"
    /\ task[1][k].by = "job"

\* C39: the trial pages debited for one user and mode never exceed the trial
\* limit, also when several requests of the user are handled concurrently.
C39_TrialBound == pages_used <= TRIAL_PAGES_LIMIT

\* C40: a stored passcode verifies at most once and never after its expiry: a
\* successful verification needs the passcode stored last, unexpired, and
\* deletes it; a detected expiry deletes it; a wrong guess leaves it in place;
\* storing a passcode replaces the one stored before.
C40_PasscodeOnce ==
  /\ [](\A a \in DOMAIN otp_log.verified, b \in DOMAIN otp_log.verified :
          a # b => otp_log.verified[a] # otp_log.verified[b])
  /\ [][otp_result' # otp_result =>
          /\ otp_result'.ok =>
               /\ otp_storage # NoOtp
               /\ clock - otp_storage.timestamp <= OTP_EXPIRY_MINUTES
               /\ otp_storage.id = otp_log.stored
               /\ otp_log'.verified = Append(otp_log.verified, otp_storage.id)
               /\ otp_storage' = NoOtp
          /\ otp_result'.message = "OTP has expired" =>
               otp_storage # NoOtp /\ otp_storage' = NoOtp
          /\ otp_result'.message = "Invalid OTP" =>
               otp_storage # NoOtp /\ otp_storage' = otp_storage]_vars
  /\ [][otp_log'.stored # otp_log.stored =>
          /\ otp_storage'.id = otp_log'.stored
          /\ otp_storage'.timestamp = clock]_vars

\* a second passcode replaced the first, a wrong guess left it in place, the
\* right guess verified it and a third call found nothing
C40_Witness ==
  /\ otp_log.stored = 2
  /\ otp_log.verified = <<2>>
  /\ otp_result.n = 3
  /\ otp_result.message = "OTP not found or expired"
  /\ otp_storage = NoOtp

=============================================================================
